---- MODULE Spec2Model ----
\* A model of the ts-cache TTL store (src/src/cache.ts) and of the deep-copy
\* function clone (src/unnamed/part_000) it uses for value isolation.
EXTENDS Integers, Sequences, FiniteSets, TLC

VARIABLES
  options,       \* Cache.options: the merged configuration, fixed at construction
  data,          \* Cache.data: the entries, in the enumeration order of the JS object
  stats,         \* Cache.stats
  now,           \* the wall clock read by Date.now()
  timers,        \* the host's pending setTimeout callbacks, in the order of their creation
  checkTimeout,  \* Cache.checkTimeout: the position in timers of the callback whose
                 \* handle the cache keeps, 0 = undefined, Stale = a handle whose
                 \* callback has run or was cleared
  heap,          \* the JS object heap: object id -> object
  held,          \* the object ids the client holds references to
  listeners,     \* the EventEmitter's listeners, in the order of their registration
  last,          \* the last call among those observed: its name, key, result, error
                 \* and the names of the notifications it published
  hist           \* bookkeeping about the calls made so far

vars == <<options, data, stats, now, timers, checkTimeout, heap, held, listeners, last,
          hist>>

-----------------------------------------------------------------------------
\* Bounds of the model

\* how many times the clock advances
MaxTicks == 2
\* caps on the hits and misses counters: under the clock, and without it
ExpiryCount == 1
MaxCount == 2
\* how many objects the client holds at a time
MaxAlloc == 1
\* how many keys the client reads back
MaxReads == 1
\* how many items a batch passed to mset has at most
MaxBatch == 2
\* how many objects the client builds a graph of, and the deepest cut-off it asks for
MaxNodes == 3
MaxDepth == 3
\* how many listeners the client registers
MaxListeners == 2

-----------------------------------------------------------------------------
\* JS values: primitives carry their payload, "ref" points into the heap

Undef == [t |-> "undefined", n |-> 0, s |-> ""]
Null == [t |-> "null", n |-> 0, s |-> ""]
Num(n) == [t |-> "number", n |-> n, s |-> ""]
Str(s) == [t |-> "string", n |-> 0, s |-> s]
Bool(b) == [t |-> "boolean", n |-> IF b THEN 1 ELSE 0, s |-> ""]
Ref(id) == [t |-> "ref", n |-> id, s |-> ""]
\* the function () => n
Fun(n) == [t |-> "function", n |-> n, s |-> ""]

\* the typeof operator
TypeOf(v) == IF v.t \in {"null", "ref"} THEN "object" ELSE v.t

\* JS truthiness, as used by `if (ttl)`, `if (!key)` and `ttlValue && ...`
Truthy(v) ==
  CASE v.t = "undefined" -> FALSE
    [] v.t = "null" -> FALSE
    [] v.t = "number" -> v.n # 0
    [] v.t = "string" -> v.s # ""
    [] v.t = "boolean" -> v.n = 1
    [] OTHER -> TRUE

\* `const v = ...; Op(v)`: the value is computed once and then named
With(v, Op(_)) == Op(v)

\* the elements of a finite set, in a fixed order
RECURSIVE SetToSeq(_)
SetToSeq(S) ==
  IF S = {} THEN <<>>
  ELSE With(CHOOSE y \in S : TRUE, LAMBDA x : <<x>> \o SetToSeq(S \ {x}))

\* a fresh object id: the smallest one not in use
NewId(h) == CHOOSE i \in 1..(Cardinality(DOMAIN h) + 1) : i \notin DOMAIN h

\* heap h extended with object o at id
Alloc(h, id, o) == [i \in DOMAIN h \cup {id} |-> IF i = id THEN o ELSE h[i]]

\* object o with property p set to v
PutProp(o, p, v) ==
  [o EXCEPT !.props = [q \in DOMAIN o.props \cup {p} |-> IF q = p THEN v ELSE o.props[q]]]

EmptyHeap == [i \in {} |-> 0]

-----------------------------------------------------------------------------
\* clone(parent): circular = true, depth = Infinity, as the cache calls it

\* depth Infinity; Infinity - 1 = Infinity
Infinity == -1
DepthDec(depth) == IF depth = Infinity THEN Infinity ELSE depth - 1

\* allParents.indexOf(parent): 0 when absent
IndexOf(seq, x) ==
  IF \E i \in 1..Len(seq) : seq[i] = x
  THEN CHOOSE i \in 1..Len(seq) : seq[i] = x /\ \A j \in 1..(i - 1) : seq[j] # x
  ELSE 0

\* the host's call stack, in frames of _clone; a call that finds it full raises a
\* RangeError, which no frame of _clone catches
StackLimit == MaxNodes + MaxDepth

\* a promise the client has made has no reaction of _clone
NoReaction == [source |-> 0, circular |-> FALSE, depth |-> 0,
               allParents |-> <<>>, allChildren |-> <<>>]

\* the object _clone creates for the parent o. For a promise it is a pending promise
\* whose executor has called parent.then: the reaction keeps what the two callbacks
\* close over (depth, circular, allParents, allChildren) until the source settles
NewChild(o, source, circular, depth) ==
  IF o.kind = "promise"
  THEN [kind |-> "promise", props |-> [q \in {} |-> Undef], state |-> "pending",
        value |-> Undef,
        reaction |-> [source |-> source, circular |-> circular, depth |-> depth,
                      allParents |-> <<>>, allChildren |-> <<>>]]
  ELSE [kind |-> o.kind, props |-> [q \in {} |-> Undef]]

\* _clone(parent, depth) on the clone state k = [h, allParents, allChildren, stack,
\* overflow], stack being the objects whose properties are being copied: returns
\* [k, v]. The property loop of an object runs in CloneProps.
RECURSIVE CloneRec(_, _, _, _), CloneProps(_, _, _, _, _, _)
CloneProps(circular, k, parent, child, ps, depth) ==
  IF ps = <<>> \/ k.overflow THEN k
  ELSE With(CloneRec(circular, k, k.h[parent].props[Head(ps)], DepthDec(depth)),
            LAMBDA r :
              IF r.k.overflow THEN r.k
              ELSE CloneProps(circular,
                              [r.k EXCEPT !.h[child] = PutProp(@, Head(ps), r.v)],
                              parent, child, Tail(ps), depth))

CloneRec(circular, k, parent, depth) ==
  IF k.overflow \/ Len(k.stack) >= StackLimit
  THEN [k |-> [k EXCEPT !.overflow = TRUE], v |-> Undef]
  ELSE IF parent = Null THEN [k |-> k, v |-> Null]
  ELSE IF depth = 0 THEN [k |-> k, v |-> parent]
  ELSE IF TypeOf(parent) # "object" THEN [k |-> k, v |-> parent]
  ELSE IF k.h[parent.n].kind = "buffer"
  THEN With(NewId(k.h), LAMBDA child :
         [k |-> [k EXCEPT !.h = Alloc(k.h, child, k.h[parent.n])], v |-> Ref(child)])
  ELSE IF circular /\ IndexOf(k.allParents, parent.n) # 0
  THEN [k |-> k, v |-> Ref(k.allChildren[IndexOf(k.allParents, parent.n)])]
  ELSE With(NewId(k.h), LAMBDA child :
       With(CloneProps(circular,
                       [k EXCEPT
                          !.h = Alloc(k.h, child,
                                      NewChild(k.h[parent.n], parent.n, circular, depth)),
                          !.allParents = IF circular THEN Append(@, parent.n) ELSE @,
                          !.allChildren = IF circular THEN Append(@, child) ELSE @,
                          !.stack = Append(@, parent.n)],
                       parent.n, child, SetToSeq(DOMAIN k.h[parent.n].props), depth),
            LAMBDA k1 :
              [k |-> IF k1.overflow THEN k1 ELSE [k1 EXCEPT !.stack = k.stack],
               v |-> Ref(child)]))

\* the clone state of a call of clone(): the two lists are empty
NewClone(h) ==
  [h |-> h, allParents |-> <<>>, allChildren |-> <<>>, stack |-> <<>>, overflow |-> FALSE]

\* the two lists are arrays that every reaction registered in one call of clone()
\* shares: the pending reactions of that call see what a run of _clone has added
Shared(k) ==
  IF k.allChildren = <<>> THEN k.h
  ELSE [i \in DOMAIN k.h |->
          IF /\ k.h[i].kind = "promise" /\ k.h[i].state = "pending"
             /\ k.h[i].reaction.circular
             /\ \/ k.h[i].reaction.allChildren = <<>> /\ IndexOf(k.allChildren, i) # 0
                \/ /\ k.h[i].reaction.allChildren # <<>>
                   /\ k.h[i].reaction.allChildren[1] = k.allChildren[1]
          THEN [k.h[i] EXCEPT !.reaction.allParents = k.allParents,
                              !.reaction.allChildren = k.allChildren]
          ELSE k.h[i]]

\* what a call of clone() ends with: [h, v, overflow]
Cloning(r) ==
  [h |-> Shared(r.k), v |-> r.v, overflow |-> r.k.overflow, stack |-> r.k.stack]

\* a copy of the root only, which shares the children with the source
CloneShallow(h, parent) ==
  IF TypeOf(parent) # "object" \/ parent = Null
  THEN [h |-> h, v |-> parent, overflow |-> FALSE, stack |-> <<>>]
  ELSE With(NewId(h), LAMBDA child :
         [h |-> Alloc(h, child, h[parent.n]), v |-> Ref(child), overflow |-> FALSE,
          stack |-> <<>>])

\* a copy made without the list of visited objects whatever is asked for
cloneUnlisted(h, parent, circular, depth) ==
  Cloning(CloneRec(FALSE, NewClone(h), parent, depth))

\* a copy that stops one level below the root whatever the depth asked for
cloneOneLevel(h, parent, circular, depth) ==
  Cloning(CloneRec(circular, NewClone(h), parent, IF depth = 0 THEN 0 ELSE 1))

\* clone(parent, circular, depth) on heap h: returns [h, v, overflow]
cloneWith(h, parent, circular, depth) ==
  Cloning(CloneRec(circular, NewClone(h), parent, depth))

\* clone(parent) on heap h: returns [h, v, overflow]
clone(h, parent) == Cloning(CloneRec(TRUE, NewClone(h), parent, Infinity))

\* the callback of parent.then runs for the pending copy `child` whose source has
\* settled: resolve(_clone(value, depth - 1)) or reject(_clone(err, depth - 1)), with
\* the two lists of the call that made the copy. What _clone raises in the callback
\* rejects the promise that then() returned, which nothing holds: the copy stays
\* pending
Settled(h, child) ==
  With(CloneRec(h[child].reaction.circular,
                [NewClone(h) EXCEPT !.allParents = h[child].reaction.allParents,
                                    !.allChildren = h[child].reaction.allChildren],
                h[h[child].reaction.source].value, DepthDec(h[child].reaction.depth)),
       LAMBDA r :
         IF r.k.overflow THEN [h EXCEPT ![child].reaction = NoReaction]
         ELSE Shared([r.k EXCEPT !.h[child].state = h[h[child].reaction.source].state,
                                 !.h[child].value = r.v,
                                 !.h[child].reaction = NoReaction]))

-----------------------------------------------------------------------------
\* Configuration

\* the factor from seconds to clock units in _wrap
ttlMultiplicator == 1000
\* the size estimate of a number or a boolean
PrimitiveSize == 8

DEFAULT_OPTIONS ==
  [forceString |-> FALSE, objectValueSize |-> 80, promiseValueSize |-> 80,
   arrayValueSize |-> 40, stdTTL |-> 0, checkPeriod |-> 600, useClones |-> TRUE,
   deleteOnExpire |-> TRUE, enableLegacyCallbacks |-> FALSE, maxKeys |-> -1]

\* Object.assign({}, DEFAULT_OPTIONS, o): the fields of o override the defaults
MergeOptions(o) ==
  [f \in DOMAIN DEFAULT_OPTIONS |-> IF f \in DOMAIN o THEN o[f] ELSE DEFAULT_OPTIONS[f]]

-----------------------------------------------------------------------------
\* Keys

\* _isInvalidKey: the key's type is neither string nor number
isInvalidKey(key) == TypeOf(key) \notin {"string", "number"}

\* key.toString()
KeyToString(key) ==
  IF key.t = "number" THEN (IF key.s = "NaN" THEN "NaN" ELSE ToString(key.n)) ELSE key.s

\* _getKeyLength
getKeyLength(key) == Len(KeyToString(key))

\* the canonical array indices ("0", "1", ...), which a JS object enumerates first
IsIndexKey(s) == \E n \in 0..9 : ToString(n) = s
IndexValue(s) == CHOOSE n \in 0..9 : ToString(n) = s

\* the position of key ks in the store, 0 when absent
Idx(d, ks) == IF \E i \in 1..Len(d) : d[i].k = ks
              THEN CHOOSE i \in 1..Len(d) : d[i].k = ks ELSE 0
Present(d, ks) == Idx(d, ks) # 0

\* the names the store object inherits from Object.prototype, all of them functions
ProtoKeys == {"constructor", "toString", "valueOf", "hasOwnProperty"}

\* this.data[ks] is truthy: an entry of the store or an inherited member
Has(d, ks) == Present(d, ks) \/ ks \in ProtoKeys

\* this.data[ks]: of an inherited member .v is undefined, and so is .t, which the
\* expiry check treats as it treats 0 (undefined < n is false)
Entry(d, ks) == IF Present(d, ks) THEN d[Idx(d, ks)] ELSE [k |-> ks, t |-> 0, v |-> Undef]

\* delete this.data[ks]
Remove(d, ks) == SelectSeq(d, LAMBDA e : e.k # ks)

\* where a new key is enumerated: index keys ascending, then strings as inserted
InsertPos(d, ks) ==
  IF ~IsIndexKey(ks) THEN Len(d) + 1
  ELSE 1 + Cardinality({i \in 1..Len(d) :
                          IsIndexKey(d[i].k) /\ IndexValue(d[i].k) < IndexValue(ks)})

\* this.data[ks] = e: an existing key keeps its place
Store(d, ks, e) ==
  IF Present(d, ks) THEN [d EXCEPT ![Idx(d, ks)] = [k |-> ks, t |-> e.t, v |-> e.v]]
  ELSE With(InsertPos(d, ks), LAMBDA p :
         SubSeq(d, 1, p - 1) \o <<[k |-> ks, t |-> e.t, v |-> e.v]>> \o SubSeq(d, p, Len(d)))

\* keys(): Object.keys(this.data)
Keys(d) == [i \in 1..Len(d) |-> d[i].k]

-----------------------------------------------------------------------------
\* JSON.stringify and the size estimate

\* undefined and functions have no JSON text
Unserializable(v) == v.t \in {"undefined", "function"}

RECURSIVE JsonText(_, _), JsonMembers(_, _, _, _), JsonElements(_, _, _)
\* the members of an object: properties without JSON text are left out
JsonMembers(h, o, ps, first) ==
  IF ps = <<>> THEN ""
  ELSE IF Unserializable(o.props[Head(ps)]) THEN JsonMembers(h, o, Tail(ps), first)
  ELSE (IF first THEN "" ELSE ",") \o "\"" \o Head(ps) \o "\":"
       \o JsonText(h, o.props[Head(ps)]) \o JsonMembers(h, o, Tail(ps), FALSE)
\* the elements of an array from index i on: such elements are written as null
JsonElements(h, o, i) ==
  IF ToString(i) \notin DOMAIN o.props THEN ""
  ELSE (IF i = 0 THEN "" ELSE ",")
       \o (IF Unserializable(o.props[ToString(i)]) THEN "null"
           ELSE JsonText(h, o.props[ToString(i)]))
       \o JsonElements(h, o, i + 1)
JsonText(h, v) ==
  CASE v.t = "null" -> "null"
    [] v.t = "number" -> ToString(v.n)
    [] v.t = "string" -> "\"" \o v.s \o "\""
    [] v.t = "boolean" -> IF v.n = 1 THEN "true" ELSE "false"
    [] v.t = "ref" ->
         IF h[v.n].kind = "array" THEN "[" \o JsonElements(h, h[v.n], 0) \o "]"
         ELSE "{" \o JsonMembers(h, h[v.n], SetToSeq(DOMAIN h[v.n].props), TRUE) \o "}"
    [] OTHER -> ""

\* JSON.stringify(v): undefined for undefined, else the JSON text
JSONstringify(h, v) == IF Unserializable(v) THEN Undef ELSE Str(JsonText(h, v))

\* _getValLength; -1 stands for the TypeError of reading .length of undefined
getValLength(h, value) ==
  IF value.t = "string" THEN Len(value.s)
  ELSE IF options.forceString
       THEN With(JSONstringify(h, value), LAMBDA j : IF j = Undef THEN -1 ELSE Len(j.s))
  ELSE IF value.t = "ref" /\ h[value.n].kind = "array"
       THEN options.arrayValueSize * Cardinality(DOMAIN h[value.n].props)
  ELSE IF value.t = "number" THEN PrimitiveSize
  ELSE IF value.t = "ref" THEN options.objectValueSize * Cardinality(DOMAIN h[value.n].props)
  ELSE IF value.t = "boolean" THEN PrimitiveSize
  ELSE 0

-----------------------------------------------------------------------------
\* The cache's methods. Each works on a record c of the mutable state
\* [data, stats, heap, ev, timers, checkTimeout], ev being the notifications
\* published so far by the running call, and returns the new record with the
\* call's result (ret) and the code of the error it throws (err, "" for none).

ZeroStats == [hits |-> 0, misses |-> 0, keys |-> 0, ksize |-> 0, vsize |-> 0]

\* c.replaced tells a running _checkData whether this.data is still the object it
\* enumerates: when flushAll has assigned a new one, keys are the keys the
\* enumerated object had then
Same == [yes |-> FALSE, keys |-> <<>>]

\* a method returns ret, unless a listener it notified has raised: then what the
\* listener raised leaves the method at the emit
Ok(c, ret) ==
  IF c.thrown THEN [c |-> c, ret |-> Undef, err |-> "ListenerError"]
  ELSE [c |-> c, ret |-> ret, err |-> ""]
Throw(c, code) == [c |-> c, ret |-> Undef, err |-> code]

\* what listener i does when it is called with (key, val): it reads keys() and
\* getStats(), and then raises if it is one that raises
Called(c, i, name, key, val) ==
  [listener |-> i, name |-> name, key |-> key, val |-> val,
   keys |-> Keys(c.data), stats |-> c.stats]

RECURSIVE flushAll(_, _)
RECURSIVE close(_)
\* a listener that calls back into the cache: the call runs to its end, on the state
\* the listener was called in, before the listener returns
Reenter(c, does) ==
  IF does = "flushAll" THEN flushAll(c, TRUE).c
  ELSE IF does = "close" THEN close(c).c
  ELSE c

\* EventEmitter.emit from listener i on: the listeners of the name are called one
\* after the other in the order of their registration, and what one raises ends
\* the delivery
RECURSIVE deliver(_, _, _, _, _)
\* a delivery that ends after the first listener of the name
deliverFirst(c, i, name, key, val) ==
  IF \E j \in i..Len(c.listeners) : c.listeners[j].name = name
  THEN With(CHOOSE j \in i..Len(c.listeners) :
              /\ c.listeners[j].name = name
              /\ \A l \in i..(j - 1) : c.listeners[l].name # name,
            LAMBDA j :
              [c EXCEPT !.calls = Append(@, Called(c, j, name, key, val)),
                        !.thrown = c.listeners[j].does = "raise"])
  ELSE c

deliver(c, i, name, key, val) ==
  IF i > Len(c.listeners) THEN c
  ELSE IF c.listeners[i].name # name THEN deliver(c, i + 1, name, key, val)
  ELSE IF c.listeners[i].does = "raise"
  THEN [c EXCEPT !.calls = Append(@, Called(c, i, name, key, val)), !.thrown = TRUE]
  ELSE With(Reenter([c EXCEPT !.calls = Append(@, Called(c, i, name, key, val))],
                    c.listeners[i].does),
            LAMBDA c1 : IF c1.thrown THEN c1 ELSE deliver(c1, i + 1, name, key, val))

\* emit that goes on to the next listener when one raises
emitIsolated(c, name, key, val) ==
  [deliver([c EXCEPT !.ev = Append(@, [name |-> name, key |-> key, val |-> val]),
                     !.listeners = [i \in DOMAIN @ |-> [@[i] EXCEPT !.does = "read"]]],
           1, name, key, val)
     EXCEPT !.listeners = c.listeners]

\* this.emit(name, key, value)
emit(c, name, key, val) ==
  deliver([c EXCEPT !.ev = Append(@, [name |-> name, key |-> key, val |-> val])],
          1, name, key, val)

\* _unwrap that tests `if (value.v)`
unwrapTruthy(h, value, asClone) ==
  IF Truthy(value.v)
  THEN IF asClone /\ options.useClones THEN clone(h, value.v) ELSE [h |-> h, v |-> value.v]
  ELSE [h |-> h, v |-> Null]

\* _unwrap(value, asClone): [h, v]
unwrap(h, value, asClone) ==
  IF value.v # Undef
  THEN IF asClone /\ options.useClones THEN clone(h, value.v) ELSE [h |-> h, v |-> value.v]
  ELSE [h |-> h, v |-> Null]

\* the livetime when a ttl of 0 is taken for a missing ttl
livetimeOrDefault(ttlArg) ==
  IF Truthy(ttlArg) THEN now + ttlArg.n * ttlMultiplicator
  ELSE IF options.stdTTL = 0 THEN options.stdTTL
  ELSE now + options.stdTTL * ttlMultiplicator

\* the livetime computed by _wrap
livetime(ttlArg) ==
  IF ttlArg = Num(0) THEN 0
  ELSE IF Truthy(ttlArg) THEN now + ttlArg.n * ttlMultiplicator
  ELSE IF options.stdTTL = 0 THEN options.stdTTL
  ELSE now + options.stdTTL * ttlMultiplicator

\* _wrap(value, ttl, asClone): [h, e]
wrap(h, value, ttlArg, asClone) ==
  With(IF asClone /\ options.useClones THEN clone(h, value) ELSE [h |-> h, v |-> value],
       LAMBDA r : [h |-> r.h, e |-> [t |-> livetime(ttlArg), v |-> r.v]])

\* the loop of del over keysArray
RECURSIVE delLoop(_, _, _)
delLoop(c, keysArray, delCount) ==
  IF keysArray = <<>> \/ c.thrown THEN Ok(c, Num(delCount))
  ELSE IF isInvalidKey(Head(keysArray)) THEN Throw(c, "EKEYTYPE")
  ELSE With(KeyToString(Head(keysArray)), LAMBDA keyStr :
         IF Has(c.data, keyStr)
         THEN With(Entry(c.data, keyStr), LAMBDA oldVal :
                delLoop(emit([c EXCEPT
                                !.stats.vsize =
                                  @ - getValLength(c.heap, unwrap(c.heap, oldVal, FALSE).v),
                                !.stats.ksize = @ - getKeyLength(Head(keysArray)),
                                !.stats.keys = @ - 1,
                                !.data = Remove(@, keyStr)],
                             "del", Head(keysArray), oldVal.v),
                        Tail(keysArray), delCount + 1))
         ELSE delLoop(c, Tail(keysArray), delCount))

\* del(keys): keys is [isArray, items], a single key being a one-item list
del(c, keys) == delLoop(c, keys.items, 0)

\* an expiry test that is met as soon as the clock reaches the expiry
ExpiredAtOrBefore(e) == e.t # 0 /\ e.t <= now

\* is the entry past its expiry
Expired(e) == e.t # 0 /\ e.t < now

\* _check that publishes expired only for the entries it removes
checkOnRemoval(c, key, e) ==
  IF Expired(e) /\ options.deleteOnExpire
  THEN With(del(c, [isArray |-> FALSE, items |-> <<Str(key)>>]).c, LAMBDA c1 :
         IF c1.thrown THEN [c |-> c1, result |-> FALSE]
         ELSE With(unwrap(c1.heap, e, TRUE), LAMBDA u :
                [c |-> emit([c1 EXCEPT !.heap = u.h], "expired", Str(key), u.v),
                 result |-> FALSE]))
  ELSE [c |-> c, result |-> TRUE]

\* _check that publishes expired before it removes the entry
checkNotifyFirst(c, key, e) ==
  IF Expired(e)
  THEN With(unwrap(c.heap, e, TRUE), LAMBDA u :
         With(emit([c EXCEPT !.heap = u.h], "expired", Str(key), u.v), LAMBDA c1 :
           IF c1.thrown THEN [c |-> c1, result |-> FALSE]
           ELSE [c |-> IF options.deleteOnExpire
                       THEN del(c1, [isArray |-> FALSE, items |-> <<Str(key)>>]).c ELSE c1,
                 result |-> ~options.deleteOnExpire]))
  ELSE [c |-> c, result |-> TRUE]

\* _check that reports an expired entry and leaves it in the store
checkAndKeep(c, key, e) ==
  IF Expired(e)
  THEN With(unwrap(c.heap, e, TRUE), LAMBDA u :
         [c |-> emit([c EXCEPT !.heap = u.h], "expired", Str(key), u.v), result |-> FALSE])
  ELSE [c |-> c, result |-> TRUE]

\* _check(key, data): [c, result]
check(c, key, e) ==
  IF Expired(e)
  THEN With(IF options.deleteOnExpire
            THEN del(c, [isArray |-> FALSE, items |-> <<Str(key)>>]).c ELSE c,
            LAMBDA c1 :
              IF c1.thrown THEN [c |-> c1, result |-> FALSE]
              ELSE With(unwrap(c1.heap, e, TRUE), LAMBDA u :
                     [c |-> emit([c1 EXCEPT !.heap = u.h], "expired", Str(key), u.v),
                      result |-> ~options.deleteOnExpire]))
  ELSE [c |-> c, result |-> TRUE]

\* this.data[keyStr] && this._check(keyStr, this.data[keyStr]): [c, result]
found(c, keyStr) ==
  IF Has(c.data, keyStr) THEN check(c, keyStr, Entry(c.data, keyStr))
  ELSE [c |-> c, result |-> FALSE]

\* the check has passed on an entry that is no longer in the store when the method
\* reads this.data[keyStr] again (a listener has flushed the store): the read of a
\* member of undefined raises
Lost(f, keyStr) == f.result /\ ~Has(f.c.data, keyStr)
Raised(c) == [c EXCEPT !.thrown = TRUE]

\* get(key)
get(c, key) ==
  IF isInvalidKey(key) THEN Throw(c, "EKEYTYPE")
  ELSE With(found(c, KeyToString(key)), LAMBDA f :
         IF f.c.thrown \/ Lost(f, KeyToString(key)) THEN Ok(Raised(f.c), Undef)
         ELSE IF f.result
         THEN With(unwrap(f.c.heap, Entry(f.c.data, KeyToString(key)), TRUE), LAMBDA u :
                Ok([f.c EXCEPT !.stats.hits = @ + 1, !.heap = u.h], u.v))
         ELSE Ok([f.c EXCEPT !.stats.misses = @ + 1], Undef))

\* the loop of mget over keys, result being the mapping built so far
RECURSIVE mgetLoop(_, _, _)
mgetLoop(c, keys, result) ==
  IF keys = <<>> THEN [c |-> c, ret |-> Undef, err |-> "", map |-> result]
  ELSE IF isInvalidKey(Head(keys))
  THEN [c |-> c, ret |-> Undef, err |-> "EKEYTYPE", map |-> result]
  ELSE With(found(c, KeyToString(Head(keys))), LAMBDA f :
         IF f.c.thrown \/ Lost(f, KeyToString(Head(keys)))
         THEN [c |-> Raised(f.c), ret |-> Undef, err |-> "ListenerError", map |-> result]
         ELSE IF f.result
         THEN With(unwrap(f.c.heap, Entry(f.c.data, KeyToString(Head(keys))), TRUE),
                   LAMBDA u :
                     mgetLoop([f.c EXCEPT !.stats.hits = @ + 1, !.heap = u.h], Tail(keys),
                              [k \in DOMAIN result \cup {KeyToString(Head(keys))} |->
                                 IF k = KeyToString(Head(keys)) THEN u.v ELSE result[k]]))
         ELSE mgetLoop([f.c EXCEPT !.stats.misses = @ + 1], Tail(keys), result))

EmptyMap == [k \in {} |-> Undef]

\* mget(keys): keys is [isArray, items]
mget(c, keys) ==
  IF ~keys.isArray THEN [c |-> c, ret |-> Undef, err |-> "EKEYSTYPE", map |-> EmptyMap]
  ELSE mgetLoop(c, keys.items, EmptyMap)

\* NaN, the number that is falsy and differs from 0
NaN == [t |-> "number", n |-> 0, s |-> "NaN"]

\* Number.parseInt(s, 10) of a decimal literal, NaN for a text without leading digits
parseInt(s) ==
  IF \E n \in -9..99 : ToString(n) = s
  THEN Num(CHOOSE n \in -9..99 : ToString(n) = s) ELSE NaN

\* the capacity check with > in the place of >=
isFullAbove(c, more) ==
  options.maxKeys # 0 /\ options.maxKeys > -1 /\ c.stats.keys + more > options.maxKeys

\* does the capacity check of set and mset refuse `more` further keys
isFull(c, more) ==
  options.maxKeys # 0 /\ options.maxKeys > -1 /\ c.stats.keys + more >= options.maxKeys

\* set(key, value, ttl)
set(c, key, value, ttlArg) ==
  IF isFull(c, 0) THEN Throw(c, "ECACHEFULL")
  ELSE IF isInvalidKey(key) THEN Throw(c, "EKEYTYPE")
  ELSE
  With(IF options.forceString /\ TypeOf(value) # "string"
       THEN JSONstringify(c.heap, value) ELSE value, LAMBDA valueToStore :
  With(IF TypeOf(ttlArg) = "string" THEN parseInt(ttlArg.s) ELSE ttlArg, LAMBDA ttlValue :
  With(KeyToString(key), LAMBDA keyStr :
  With(Has(c.data, keyStr), LAMBDA existent :
  With(IF existent
       THEN [c EXCEPT !.stats.vsize =
               @ - getValLength(c.heap, unwrap(c.heap, Entry(c.data, keyStr), FALSE).v)]
       ELSE c, LAMBDA c1 :
  With(wrap(c1.heap, valueToStore, ttlValue, TRUE), LAMBDA w :
  With([c1 EXCEPT !.data = Store(@, keyStr, w.e), !.heap = w.h], LAMBDA c2 :
  With(getValLength(c2.heap, valueToStore), LAMBDA len :
    IF len = -1 THEN Throw(c2, "TypeError")
    ELSE Ok(emit(IF existent THEN [c2 EXCEPT !.stats.vsize = @ + len]
                 ELSE [c2 EXCEPT !.stats.vsize = @ + len,
                                 !.stats.ksize = @ + getKeyLength(key),
                                 !.stats.keys = @ + 1],
                 "set", key, value), Bool(TRUE))))))))))

\* key.toString() of any value; "" with ok FALSE is the TypeError of null and undefined
RECURSIVE toStringAny(_, _), joinFrom(_, _, _)
joinFrom(h, o, i) ==
  IF ToString(i) \notin DOMAIN o.props THEN ""
  ELSE (IF i = 0 THEN "" ELSE ",")
       \o (IF o.props[ToString(i)].t \in {"undefined", "null"} THEN ""
           ELSE toStringAny(h, o.props[ToString(i)]))
       \o joinFrom(h, o, i + 1)
toStringAny(h, v) ==
  CASE v.t \in {"string", "number"} -> KeyToString(v)
    [] v.t = "boolean" -> IF v.n = 1 THEN "true" ELSE "false"
    [] v.t = "function" -> "() => " \o ToString(v.n)
    [] v.t = "ref" -> IF h[v.n].kind = "array" THEN joinFrom(h, h[v.n], 0)
                      ELSE "[object Object]"
    [] OTHER -> ""

\* has(key)
has(c, key) ==
  IF key.t \in {"undefined", "null"} THEN Throw(c, "TypeError")
  ELSE With(found(c, toStringAny(c.heap, key)), LAMBDA f : Ok(f.c, Bool(f.result)))

\* take(key)
take(c, key) ==
  With(get(c, key), LAMBDA g :
    IF g.err # "" \/ g.ret = Undef THEN g
    ELSE Ok(del(g.c, [isArray |-> FALSE, items |-> <<key>>]).c, g.ret))

\* what fetch ends with: calls counts the invocations of the function it was given
Fetched(r, calls) == [c |-> r.c, ret |-> r.ret, err |-> r.err, calls |-> calls]

\* the value a function or a plain value stands for: the function () => n returns n
Evaluate(valueToFetch) ==
  IF TypeOf(valueToFetch) = "function" THEN Num(valueToFetch.n) ELSE valueToFetch
Invocations(valueToFetch) == IF TypeOf(valueToFetch) = "function" THEN 1 ELSE 0

\* fetch that evaluates and writes whether or not the key is there
fetchAlways(c, key, ttlOrValue, value) ==
  With(IF value = Undef THEN ttlOrValue ELSE value, LAMBDA valueToFetch :
  With(set(c, key, Evaluate(valueToFetch), IF value = Undef THEN Undef ELSE ttlOrValue),
       LAMBDA st :
    IF st.err # "" THEN Fetched(st, Invocations(valueToFetch))
    ELSE Fetched(Ok(st.c, Evaluate(valueToFetch)), Invocations(valueToFetch))))

\* fetch(key, ttlOrValue, value)
fetch(c, key, ttlOrValue, value) ==
  With(has(c, key), LAMBDA h :
    IF h.err # "" THEN Fetched(h, 0)
    ELSE IF h.ret = Bool(TRUE) THEN Fetched(get(h.c, key), 0)
    ELSE
    With(IF value = Undef THEN Undef ELSE ttlOrValue, LAMBDA ttlArg :
    With(IF value = Undef THEN ttlOrValue ELSE value, LAMBDA valueToFetch :
    With(Evaluate(valueToFetch), LAMBDA resultValue :
    With(set(h.c, key, resultValue, ttlArg), LAMBDA st :
      IF st.err # "" THEN Fetched(st, Invocations(valueToFetch))
      ELSE Fetched(Ok(st.c, resultValue), Invocations(valueToFetch)))))))

\* the validation loop of mset: the code of the first error, "" when all items pass
RECURSIVE msetValidate(_)
msetValidate(keyValueSet) ==
  IF keyValueSet = <<>> THEN ""
  ELSE IF Truthy(Head(keyValueSet).ttl) /\ TypeOf(Head(keyValueSet).ttl) # "number"
  THEN "ETTLTYPE"
  ELSE IF isInvalidKey(Head(keyValueSet).key) THEN "EKEYTYPE"
  ELSE msetValidate(Tail(keyValueSet))

\* the writing loop of mset
RECURSIVE msetLoop(_, _)
msetLoop(c, keyValueSet) ==
  IF keyValueSet = <<>> THEN Ok(c, Bool(TRUE))
  ELSE With(set(c, Head(keyValueSet).key, Head(keyValueSet).val, Head(keyValueSet).ttl),
            LAMBDA st : IF st.err # "" THEN st ELSE msetLoop(st.c, Tail(keyValueSet)))

\* mset that validates each item only when it writes it
msetEager(c, keyValueSet) ==
  IF isFull(c, Len(keyValueSet)) THEN Throw(c, "ECACHEFULL")
  ELSE msetLoop(c, keyValueSet)

\* mset(keyValueSet)
mset(c, keyValueSet) ==
  IF isFull(c, Len(keyValueSet)) THEN Throw(c, "ECACHEFULL")
  ELSE IF msetValidate(keyValueSet) # "" THEN Throw(c, msetValidate(keyValueSet))
  ELSE msetLoop(c, keyValueSet)

\* ttl(key, ttl)
ttl(c, key, ttlArg) ==
  IF ~Truthy(key) THEN Ok(c, Bool(FALSE))
  ELSE IF isInvalidKey(key) THEN Throw(c, "EKEYTYPE")
  ELSE
  With(IF ttlArg.t \in {"undefined", "null"} THEN Num(options.stdTTL) ELSE ttlArg,
       LAMBDA ttlValue :
  With(KeyToString(key), LAMBDA keyStr :
  With(found(c, keyStr), LAMBDA f :
    IF f.c.thrown \/ Lost(f, keyStr) THEN Ok(Raised(f.c), Undef)
    ELSE IF f.result
    THEN IF Truthy(ttlValue) /\ ttlValue.n >= 0
         THEN With(wrap(f.c.heap, Entry(f.c.data, keyStr).v, ttlValue, FALSE), LAMBDA w :
                Ok([f.c EXCEPT !.data = Store(@, keyStr, w.e), !.heap = w.h], Bool(TRUE)))
         ELSE Ok(del(f.c, [isArray |-> FALSE, items |-> <<key>>]).c, Bool(TRUE))
    ELSE Ok(f.c, Bool(FALSE)))))

\* getTtl(key)
getTtl(c, key) ==
  IF ~Truthy(key) THEN Ok(c, Undef)
  ELSE IF isInvalidKey(key) THEN Throw(c, "EKEYTYPE")
  ELSE
  With(KeyToString(key), LAMBDA keyStr :
  With(found(c, keyStr), LAMBDA f :
    IF Lost(f, keyStr) THEN Ok(Raised(f.c), Undef)
    ELSE IF f.result
    THEN Ok(f.c, IF Present(f.c.data, keyStr) THEN Num(Entry(f.c.data, keyStr).t) ELSE Undef)
    ELSE Ok(f.c, Undef)))

\* keys()
keys(c) == Keys(c.data)

\* getStats()
getStats(c) == c.stats

\* the handle of a callback that is no longer pending
Stale == -1

\* the pending callbacks without the one at position j, and the kept handle after that
RemoveAt(seq, j) == SubSeq(seq, 1, j - 1) \o SubSeq(seq, j + 1, Len(seq))
HandleAfter(handle, j) ==
  IF handle = j THEN Stale ELSE IF handle > j THEN handle - 1 ELSE handle

\* _killCheckPeriod(): clearTimeout of the kept handle
killCheckPeriod(c) ==
  IF c.checkTimeout > 0
  THEN [c EXCEPT !.timers = RemoveAt(@, c.checkTimeout), !.checkTimeout = Stale]
  ELSE c

\* the loop of _checkData over the keys enumerated when it started
RECURSIVE checkLoop(_, _)
\* a pass that ends after the first key
checkLoopFirst(c, ks) ==
  IF ks = <<>> \/ c.thrown THEN c
  ELSE IF Present(c.data, Head(ks)) THEN check(c, Head(ks), Entry(c.data, Head(ks))).c
  ELSE c

checkLoop(c, ks) ==
  IF ks = <<>> \/ c.thrown THEN c
  ELSE IF c.replaced.yes
  THEN \* for-in goes on over the keys left in the object it started with, and
       \* this.data[key] is read from the new one: of undefined, data.t raises
       IF \E i \in 1..Len(c.replaced.keys) : c.replaced.keys[i] = Head(ks)
       THEN IF Has(c.data, Head(ks))
            THEN checkLoop(check(c, Head(ks), Entry(c.data, Head(ks))).c, Tail(ks))
            ELSE [c EXCEPT !.thrown = TRUE]
       ELSE checkLoop(c, Tail(ks))
  ELSE IF Present(c.data, Head(ks))
  THEN checkLoop(check(c, Head(ks), Entry(c.data, Head(ks))).c, Tail(ks))
  ELSE checkLoop(c, Tail(ks))

\* _checkData that schedules the next pass whatever the checkPeriod is
checkDataAlways(c, startPeriod) ==
  With(checkLoop([c EXCEPT !.replaced = Same], Keys(c.data)), LAMBDA c1 :
    IF c1.thrown THEN [c1 EXCEPT !.replaced = c.replaced]
    ELSE IF startPeriod
    THEN [c1 EXCEPT
            !.timers = Append(@, [startPeriod |-> startPeriod,
                                  due |-> now + options.checkPeriod * 1000]),
            !.checkTimeout = Len(c1.timers) + 1,
            !.replaced = c.replaced]
    ELSE [c1 EXCEPT !.replaced = c.replaced])

\* _checkData(startPeriod)
checkData(c, startPeriod) ==
  With(checkLoop([c EXCEPT !.replaced = Same], Keys(c.data)), LAMBDA c1 :
    IF c1.thrown THEN [c1 EXCEPT !.replaced = c.replaced]
    ELSE IF startPeriod /\ options.checkPeriod # 0 /\ options.checkPeriod > 0
    THEN [c1 EXCEPT
            !.timers = Append(@, [startPeriod |-> startPeriod,
                                  due |-> now + options.checkPeriod * 1000]),
            !.checkTimeout = Len(c1.timers) + 1,
            !.replaced = c.replaced]
    ELSE [c1 EXCEPT !.replaced = c.replaced])

\* this.data = {} and the reset of this.stats, by flushAll
Emptied(c) ==
  [c EXCEPT !.data = <<>>, !.stats = ZeroStats,
            !.replaced = IF @.yes THEN @ ELSE [yes |-> TRUE, keys |-> Keys(c.data)]]

\* flushAll that leaves the pending sweep callback alone
flushAllKeepTimer(c, startPeriod) ==
  Ok(emit(checkData(Emptied(c), startPeriod), "flush", Undef, Undef), Undef)

\* flushAll(startPeriod)
flushAll(c, startPeriod) ==
  Ok(emit(checkData(killCheckPeriod(Emptied(c)), startPeriod), "flush", Undef, Undef),
     Undef)

\* flushStats that forgets the two size estimates
flushStatsCounts(c) ==
  Ok(emit([c EXCEPT !.stats.hits = 0, !.stats.misses = 0, !.stats.keys = 0],
          "flush_stats", Undef, Undef), Undef)

\* flushStats()
flushStats(c) == Ok(emit([c EXCEPT !.stats = ZeroStats], "flush_stats", Undef, Undef), Undef)

\* close()
close(c) == Ok(killCheckPeriod(c), Undef)

-----------------------------------------------------------------------------
\* The state machine: one action per call of the client and per step of the host

\* the object ids a value, an object and a set of values refer to
RefsOfVals(vs) == {v.n : v \in {x \in vs : x.t = "ref"}}
RefsOfObj(o) ==
  RefsOfVals({o.props[p] : p \in DOMAIN o.props})
    \cup (IF o.kind = "promise"
          THEN RefsOfVals({o.value})
                 \cup (IF o.reaction = NoReaction THEN {}
                       ELSE {o.reaction.source}
                              \cup {o.reaction.allParents[i] : i \in 1..Len(o.reaction.allParents)}
                              \cup {o.reaction.allChildren[i] :
                                      i \in 1..Len(o.reaction.allChildren)})
          ELSE {})

\* the objects reachable from the ids in `seen`
RECURSIVE Reach(_, _)
Reach(h, seen) ==
  With((UNION {RefsOfObj(h[i]) : i \in seen}) \ seen, LAMBDA more :
    IF more = {} THEN seen ELSE Reach(h, seen \cup more))

\* the arguments and outcome of a call, as `last` records them
NoKeys == [isArray |-> FALSE, items |-> <<>>]
Call(op, key, ks, val, ttlArg, r) ==
  [op |-> op, key |-> key, keys |-> ks, val |-> val, ttl |-> ttlArg,
   ret |-> r.ret, err |-> r.err, ev |-> r.c.ev, calls |-> r.c.calls,
   map |-> IF "map" \in DOMAIN r THEN r.map ELSE EmptyMap]

\* what `last` keeps of a call: of the calls not in hist.watch, nothing
NoCall == [op |-> "", key |-> Undef, ret |-> Undef, err |-> "", ev |-> <<>>, args |-> <<>>,
           calls |-> <<>>]
Seen(l) == IF l.op \in hist.watch
           THEN [op |-> l.op, key |-> l.key, ret |-> l.ret, err |-> l.err,
                 ev |-> [i \in 1..Len(l.ev) |-> l.ev[i].name], args |-> <<>>,
                 calls |-> l.calls]
           ELSE NoCall

\* the objects still referred to by the store, the client or the last call
Live(h, d, hd, l) ==
  Reach(h, (hd \cup RefsOfVals({d[i].v : i \in 1..Len(d)}) \cup RefsOfVals({l.ret}))
           \cap DOMAIN h)

\* the heap without the objects nothing refers to any more
Collect(h, d, hd, l) == [i \in Live(h, d, hd, l) |-> h[i]]

\* the mutable state of the cache as the methods take it
Cur == [data |-> data, stats |-> stats, heap |-> heap, ev |-> <<>>,
        timers |-> timers, checkTimeout |-> checkTimeout,
        listeners |-> listeners, calls |-> <<>>, thrown |-> FALSE, replaced |-> Same]

\* Bookkeeping over the calls made so far:
\*   asked    get calls with a valid key plus keys passed to mget, since the last flush
\*   seen     keys that get, take, fetch and mget examined, since the last flush
\*   expired  per key, the expired notifications since set last wrote it (2 = several)
\*   fresh    the number of calls so far when all of them were successful sets of
\*            new keys, -1 otherwise
\*   watch    the calls that `last` records; of the others it records nothing
\*   track    which of asked/seen ("asked"), expired and fresh are kept
\*   cap      the cap on the hits and misses counters and on a negative key counter
NoHist(watch, track, cap) ==
  [asked |-> 0, seen |-> 0, expired |-> [k \in {} |-> 0], fresh |-> 0,
   watch |-> watch, track |-> track, cap |-> cap]

Count(f, k) == IF k \in DOMAIN f THEN f[k] ELSE 0
RECURSIVE ExpiredAfter(_, _)
ExpiredAfter(f, ev) ==
  IF ev = <<>> THEN f
  ELSE With(KeyToString(Head(ev).key), LAMBDA k :
       With(IF Head(ev).name = "expired" THEN (IF Count(f, k) >= 1 THEN 2 ELSE 1)
            ELSE IF Head(ev).name = "set" THEN 0 ELSE Count(f, k), LAMBDA n :
         ExpiredAfter([j \in (DOMAIN f \cup {k}) \ (IF n = 0 THEN {k} ELSE {}) |->
                         IF j = k THEN n ELSE f[j]],
                      Tail(ev))))

\* how many leading keys of the list are valid
RECURSIVE ValidPrefix(_)
ValidPrefix(ks) ==
  IF ks = <<>> \/ isInvalidKey(Head(ks)) THEN 0 ELSE 1 + ValidPrefix(Tail(ks))

HistNext(l) ==
  LET oneGet == l.op \in {"get", "take"} /\ ~isInvalidKey(l.key)
      hitFetch == l.op = "fetch" /\ l.err = ""
                  /\ \A i \in 1..Len(l.ev) : l.ev[i].name # "set"
      flush == l.op \in {"flushAll", "flushStats"}
      a == IF oneGet \/ hitFetch THEN 1
           ELSE IF l.op = "mget" /\ l.keys.isArray THEN Len(l.keys.items) ELSE 0
      e == IF oneGet \/ hitFetch THEN 1
           ELSE IF l.op = "mget" /\ l.keys.isArray THEN ValidPrefix(l.keys.items) ELSE 0
  IN [hist EXCEPT
        !.asked = IF "asked" \notin hist.track \/ flush THEN 0 ELSE @ + a,
        !.seen = IF "asked" \notin hist.track \/ flush THEN 0 ELSE @ + e,
        !.expired = IF "expired" \in hist.track THEN ExpiredAfter(@, l.ev) ELSE @,
        !.fresh = IF "fresh" \notin hist.track THEN 0
                  ELSE IF @ >= 0 /\ l.op = "set" /\ l.err = ""
                          /\ ~Present(data, KeyToString(l.key))
                  THEN @ + 1 ELSE -1]

\* the counters that a run of calls can decrement without end are capped from below:
\* keys by deleting an inherited member, vsize by a set that throws after its write
Capped(st) ==
  st.keys >= -hist.cap /\ st.vsize >= -(hist.cap * PrimitiveSize)

\* the state after a call that returned r, recorded as l, the client holding hd
CommitHeld(r, l, hd) ==
  /\ Capped(r.c.stats)
  /\ data' = r.c.data
  /\ stats' = r.c.stats
  /\ timers' = r.c.timers
  /\ checkTimeout' = r.c.checkTimeout
  /\ heap' = Collect(r.c.heap, r.c.data, hd, Seen(l))
  /\ held' = hd
  /\ last' = Seen(l)
  /\ hist' = HistNext(l)
  /\ UNCHANGED <<options, listeners, now>>

Commit(r, l) == CommitHeld(r, l, held)

\* the state after the call op(key, ks, val, ttlArg) that returned r
Done(op, key, ks, val, ttlArg, r) == Commit(r, Call(op, key, ks, val, ttlArg, r))

\* the same for a client that keeps the object returned while that leaves it with at
\* most MaxAlloc objects
DoneKeep(op, key, ks, val, ttlArg, r) ==
  CommitHeld(r, Call(op, key, ks, val, ttlArg, r),
             IF Cardinality(held \cup RefsOfVals({r.ret})) <= MaxAlloc
             THEN held \cup RefsOfVals({r.ret}) ELSE held)

\* the state after new Cache(o): _checkData() has run on the empty store
Construct(o, watch, track, cap) ==
  /\ options = MergeOptions(o)
  /\ now = 2 * ttlMultiplicator
  /\ LET c == checkData([data |-> <<>>, stats |-> ZeroStats, heap |-> EmptyHeap,
                         ev |-> <<>>, timers |-> <<>>, checkTimeout |-> 0,
                         listeners |-> <<>>, calls |-> <<>>, thrown |-> FALSE,
                         replaced |-> Same], TRUE)
     IN /\ data = c.data
        /\ stats = c.stats
        /\ timers = c.timers
        /\ checkTimeout = c.checkTimeout
        /\ heap = c.heap
  /\ held = {}
  /\ listeners = <<>>
  /\ last = NoCall
  /\ hist = NoHist(watch, track, cap)

\* may a call that examines n keys still be made (the counters are capped)
Room(n) == stats.hits + stats.misses + n <= hist.cap /\ hist.asked + n <= hist.cap

CallGet(key) ==
  /\ Room(1)
  /\ Done("get", key, NoKeys, Undef, Undef, get(Cur, key))

\* get(key) by a client that keeps what it returns
CallGetKeep(key) ==
  /\ Room(1)
  /\ DoneKeep("get", key, NoKeys, Undef, Undef, get(Cur, key))

CallMget(ks) ==
  /\ Room(Len(ks.items))
  /\ Done("mget", Undef, ks, Undef, Undef, mget(Cur, ks))

CallSet(key, value, ttlArg) ==
  Done("set", key, NoKeys, value, ttlArg, set(Cur, key, value, ttlArg))

\* mset(keyValueSet), the items being [key, val, ttl]; recorded with the key of the
\* first item
CallMset(keyValueSet) ==
  Done("mset", IF keyValueSet = <<>> THEN Undef ELSE Head(keyValueSet).key,
       [isArray |-> TRUE,
        items |-> [i \in 1..Len(keyValueSet) |-> keyValueSet[i].key]],
       Undef, Undef, mset(Cur, keyValueSet))

CallFetch(key, ttlOrValue, value) ==
  /\ Room(1)
  /\ Done("fetch", key, NoKeys, value, ttlOrValue, fetch(Cur, key, ttlOrValue, value))

CallDel(ks) == Done("del", Undef, ks, Undef, Undef, del(Cur, ks))

CallTake(key) ==
  /\ Room(1)
  /\ Done("take", key, NoKeys, Undef, Undef, take(Cur, key))

CallTtl(key, ttlArg) == Done("ttl", key, NoKeys, Undef, ttlArg, ttl(Cur, key, ttlArg))

CallGetTtl(key) == Done("getTtl", key, NoKeys, Undef, Undef, getTtl(Cur, key))

CallHas(key) == Done("has", key, NoKeys, Undef, Undef, has(Cur, key))

CallFlushAll(startPeriod) ==
  Done("flushAll", Undef, NoKeys, Bool(startPeriod), Undef, flushAll(Cur, startPeriod))

CallFlushStats == Done("flushStats", Undef, NoKeys, Undef, Undef, flushStats(Cur))

CallClose == Done("close", Undef, NoKeys, Undef, Undef, close(Cur))

\* the host runs the sweep callback that is due first: this._checkData(startPeriod)
TimerFire ==
  \E j \in 1..Len(timers) :
    /\ timers[j].due <= now
    /\ \A i \in 1..Len(timers) :
         timers[i].due > timers[j].due \/ (timers[i].due = timers[j].due /\ i >= j)
    /\ Done("sweep", Undef, NoKeys, Undef, Undef,
            Ok(checkData([Cur EXCEPT !.timers = RemoveAt(@, j),
                                     !.checkTimeout = HandleAfter(@, j)],
                         timers[j].startPeriod), Undef))

\* what a listener does when it is called: it reads the cache, or it reads it and
\* raises
Behaviours == {"read", "raise"}

\* cache.on(name, listener): does is what the listener does
On(name, does) ==
  /\ Len(listeners) < MaxListeners
  /\ listeners' = Append(listeners, [name |-> name, does |-> does])
  /\ last' = NoCall
  /\ heap' = Collect(heap, data, held, last')
  /\ UNCHANGED <<options, data, stats, now, timers, checkTimeout, held, hist>>

\* the client creates [{p: v}] and holds the array
ClientNewNested(p, v) ==
  /\ Cardinality(held) < MaxAlloc
  /\ LET inner == NewId(heap)
         h1 == Alloc(heap, inner, [kind |-> "object", props |-> [q \in {p} |-> v]])
         outer == NewId(h1)
     IN /\ heap' = Alloc(h1, outer, [kind |-> "array",
                                     props |-> [q \in {"0"} |-> Ref(inner)]])
        /\ held' = held \cup {outer}
  /\ last' = NoCall
  /\ UNCHANGED <<options, listeners, data, stats, now, timers, checkTimeout, hist>>

\* the client assigns to a property of an object it can reach
ClientMutate(id, p, v) ==
  /\ id \in Reach(heap, held)
  /\ p \in DOMAIN heap[id].props
  /\ heap' = [heap EXCEPT ![id] = PutProp(@, p, v)]
  /\ last' = NoCall
  /\ UNCHANGED <<options, listeners, data, stats, now, timers, checkTimeout, held, hist>>

\* the client drops a reference it holds
ClientDrop(id) ==
  /\ id \in held
  /\ held' = held \ {id}
  /\ heap' = Collect(heap, data, held', NoCall)
  /\ last' = NoCall
  /\ UNCHANGED <<options, listeners, data, stats, now, timers, checkTimeout, hist>>

\* the client creates an empty object, array or byte buffer and holds it
ClientCreate(kind) ==
  /\ Cardinality(held) < MaxNodes
  /\ held' = held \cup {NewId(Collect(heap, data, held, NoCall))}
  /\ heap' = Alloc(Collect(heap, data, held, NoCall), NewId(Collect(heap, data, held, NoCall)),
                   [kind |-> kind, props |-> [q \in {} |-> Undef]])
  /\ last' = NoCall
  /\ UNCHANGED <<options, listeners, data, stats, now, timers, checkTimeout, hist>>

\* the client sets a property of an object or array it holds that has none of that
\* name yet
ClientAssign(id, p, v) ==
  /\ id \in held
  /\ heap[id].kind # "buffer"
  /\ p \notin DOMAIN heap[id].props
  /\ heap' = Collect([heap EXCEPT ![id] = PutProp(@, p, v)], data, held, NoCall)
  /\ last' = NoCall
  /\ UNCHANGED <<options, listeners, data, stats, now, timers, checkTimeout, held, hist>>

\* the client sets a property of an object it holds while it still has what its
\* last call returned
ClientExtend(id, p, v) ==
  /\ id \in held
  /\ heap[id].kind # "buffer"
  /\ p \notin DOMAIN heap[id].props
  /\ heap' = Collect([heap EXCEPT ![id] = PutProp(@, p, v)], data, held, last)
  /\ UNCHANGED <<options, listeners, data, stats, now, timers, checkTimeout, held, last,
                 hist>>

\* the client lets go of what its last call returned
ClientForget ==
  /\ last # NoCall
  /\ last' = NoCall
  /\ heap' = Collect(heap, data, held, NoCall)
  /\ UNCHANGED <<options, listeners, data, stats, now, timers, checkTimeout, held, hist>>

\* the state after clone(parent, circular, depth) returned r: the client has the
\* copy until its next step
Cloned(parent, args, r) ==
  /\ last' = [op |-> "clone", key |-> parent, ret |-> r.v,
              err |-> IF r.overflow THEN "RangeError" ELSE "", ev |-> <<>>,
              args |-> args, calls |-> <<>>]
  /\ heap' = Collect(r.h, data, held, last')
  /\ UNCHANGED <<options, listeners, data, stats, now, timers, checkTimeout, held, hist>>

CallClone(parent, circular, depth) ==
  Cloned(parent, <<circular, depth>>,
         cloneWith(Collect(heap, data, held, NoCall), parent, circular, depth))

\* the client creates a promise, pending, and holds it
ClientDefer ==
  /\ Cardinality(held) < MaxNodes
  /\ held' = held \cup {NewId(Collect(heap, data, held, NoCall))}
  /\ heap' = Alloc(Collect(heap, data, held, NoCall), NewId(Collect(heap, data, held, NoCall)),
                   [kind |-> "promise", props |-> [q \in {} |-> Undef], state |-> "pending",
                    value |-> Undef, reaction |-> NoReaction])
  /\ last' = NoCall
  /\ UNCHANGED <<options, listeners, data, stats, now, timers, checkTimeout, hist>>

\* a promise the client has made is fulfilled with the value, or rejected with it;
\* the client goes on holding what it last got
ClientSettle(id, outcome, value) ==
  /\ id \in held
  /\ heap[id].kind = "promise" /\ heap[id].state = "pending"
  /\ heap[id].reaction = NoReaction
  /\ heap' = Collect([heap EXCEPT ![id].state = outcome, ![id].value = value],
                     data, held, last)
  /\ UNCHANGED <<options, listeners, data, stats, now, timers, checkTimeout, held, last,
                 hist>>

\* the host runs the callback that _clone passed to then() of a promise that has
\* settled
React(child) ==
  /\ child \in DOMAIN heap
  /\ heap[child].kind = "promise" /\ heap[child].reaction # NoReaction
  /\ heap[heap[child].reaction.source].state # "pending"
  /\ heap' = Collect(Settled(heap, child), data, held, last)
  /\ UNCHANGED <<options, listeners, data, stats, now, timers, checkTimeout, held, last,
                 hist>>

\* the clock advances
Tick ==
  /\ now < (2 + MaxTicks) * ttlMultiplicator
  /\ now' = now + ttlMultiplicator
  /\ last' = NoCall
  /\ heap' = Collect(heap, data, held, last')
  /\ UNCHANGED <<options, listeners, data, stats, timers, checkTimeout, held, hist>>

-----------------------------------------------------------------------------
\* The store under a running clock: expiry and sweeps

\* the configurations the cache is built with
ExpiryOptions == [deleteOnExpire : BOOLEAN, stdTTL : {0, 1}, checkPeriod : {1}]

\* the arguments the client passes
ExpiryKeys == {Str("a"), Num(1), Null}
ValidExpiryKeys == {k \in ExpiryKeys : ~isInvalidKey(k)}
ExpiryValues == {Str("v")}
ExpiryTtls == {Undef, Num(0), Num(1)}
ExpiryKeyArgs ==
  [isArray : {TRUE}, items : {<<Str("a")>>, <<Str("a"), Num(1)>>, <<Num(1), Null>>}]

InitExpiry ==
  \E o \in ExpiryOptions :
    Construct(o, {"get", "flushAll"}, {"asked", "expired"}, ExpiryCount)

NextExpiry ==
  \/ \E key \in ExpiryKeys : CallGet(key)
  \/ \E ks \in ExpiryKeyArgs : CallMget(ks)
  \/ \E key \in ExpiryKeys, value \in ExpiryValues, ttlArg \in ExpiryTtls :
       CallSet(key, value, ttlArg)
  \/ \E key \in ExpiryKeys : CallDel([isArray |-> FALSE, items |-> <<key>>])
  \/ \E key \in ExpiryKeys : CallTake(key)
  \/ \E key \in ExpiryKeys, ttlArg \in ExpiryTtls : CallTtl(key, ttlArg)
  \/ \E key \in ExpiryKeys : CallGetTtl(key)
  \/ \E key \in ExpiryKeys : CallHas(key)
  \/ CallFlushAll(TRUE)
  \/ TimerFire
  \/ Tick

SpecExpiry == InitExpiry /\ [][NextExpiry]_vars

-----------------------------------------------------------------------------
\* The store without a clock, with a capacity

StoreOptions == [maxKeys : {-1, 1, 2}, checkPeriod : {0}]

StoreKeys == {Str("a"), Str("constructor"), Num(1), Null}
ValidStoreKeys == {k \in StoreKeys : ~isInvalidKey(k)}
StoreValues == {Str("v"), Num(7)}
StoreTtls == {Num(0)}

Init == \E o \in StoreOptions : Construct(o, {"set"}, {"fresh"}, MaxCount)

Next ==
  \/ \E key \in StoreKeys, value \in StoreValues, ttlArg \in StoreTtls :
       CallSet(key, value, ttlArg)
  \/ \E key \in StoreKeys : CallDel([isArray |-> FALSE, items |-> <<key>>])
  \/ CallFlushStats

Spec == Init /\ [][Next]_vars

-----------------------------------------------------------------------------
\* The store without a clock: deletion and flushing

DelOptions == [checkPeriod : {0}]

DelKeyLists ==
  {<<Str("a"), Num(1)>>, <<Str("a"), Str("a")>>, <<Num(1), Null, Str("a")>>,
   <<Str("constructor"), Str("a")>>}
DelKeyArgs ==
  [isArray : {TRUE}, items : DelKeyLists]
  \cup [isArray : {FALSE}, items : {<<k>> : k \in StoreKeys}]

InitDel == \E o \in DelOptions : Construct(o, {"del", "flushStats"}, {}, MaxCount)

NextDel ==
  \/ \E key \in StoreKeys, value \in StoreValues, ttlArg \in StoreTtls :
       CallSet(key, value, ttlArg)
  \/ \E ks \in DelKeyArgs : CallDel(ks)
  \/ \E key \in StoreKeys : CallTake(key)
  \/ CallFlushAll(TRUE)
  \/ CallFlushStats

SpecDel == InitDel /\ [][NextDel]_vars

-----------------------------------------------------------------------------
\* The store of a client that passes objects and changes them afterwards

RefOptions == [useClones : BOOLEAN, forceString : BOOLEAN, checkPeriod : {0}]

RefKeys == {Str("k"), Null}
ValidRefKeys == {k \in RefKeys : ~isInvalidKey(k)}
Primitives == {Undef, Null, Num(0), Str("v"), Bool(FALSE)}
\* the values the client passes: a primitive and the objects it holds
RefValues == {Num(0)} \cup {Ref(id) : id \in held}
\* the values a further call can pass: all primitives and the objects within reach
AllValues == Primitives \cup {Ref(id) : id \in Reach(heap, held)}
\* the value the client assigns in a change
Changed == Num(2)

InitRefs == \E o \in RefOptions : Construct(o, {"get"}, {}, MaxReads)

NextRefs ==
  \/ ClientNewNested("x", Num(1))
  \/ \E id \in DOMAIN heap : ClientMutate(id, "x", Changed)
  \/ \E id \in held : ClientDrop(id)
  \/ \E key \in RefKeys, value \in RefValues : CallSet(key, value, Undef)
  \/ \E key \in RefKeys : CallGetKeep(key)

SpecRefs == InitRefs /\ [][NextRefs]_vars

-----------------------------------------------------------------------------
\* The store written in batches and through fetch

BatchOptions == [maxKeys : {-1, 3}, checkPeriod : {0}]

BatchKeys == {Str("a"), Num(1), Null}
BatchValues == {Str("v"), Num(7)}
\* a ttl of an item: none, a number, a numeral and the empty string
BatchTtls == {Undef, Num(0), Str("1"), Str("")}
Items == [key : BatchKeys, val : BatchValues, ttl : BatchTtls]
Batches == UNION {[1..n -> Items] : n \in 0..MaxBatch}

InitBatch == \E o \in BatchOptions : Construct(o, {"mset"}, {}, MaxCount)

NextBatch ==
  \/ \E keyValueSet \in Batches : CallMset(keyValueSet)
  \/ \E key \in BatchKeys, value \in BatchValues : CallSet(key, value, Undef)
  \/ \E key \in BatchKeys : CallDel([isArray |-> FALSE, items |-> <<key>>])

SpecBatch == InitBatch /\ [][NextBatch]_vars

-----------------------------------------------------------------------------
\* The store at its capacity, written by set and in batches

CapacityOptions == [maxKeys : {0, 2}, checkPeriod : {0}]

CapacityKeys == {Str("a"), Str("b"), Num(1)}
CapacityValues == {Str("v"), Num(7)}
CapacityItems == [key : CapacityKeys, val : CapacityValues, ttl : {Undef}]
CapacityBatches == UNION {[1..n -> CapacityItems] : n \in 0..MaxBatch}

InitCapacity == \E o \in CapacityOptions : Construct(o, {"set", "mset"}, {}, MaxCount)

NextCapacity ==
  \/ \E keyValueSet \in CapacityBatches : CallMset(keyValueSet)
  \/ \E key \in CapacityKeys, value \in CapacityValues : CallSet(key, value, Undef)
  \/ \E key \in CapacityKeys : CallDel([isArray |-> FALSE, items |-> <<key>>])

SpecCapacity == InitCapacity /\ [][NextCapacity]_vars

-----------------------------------------------------------------------------
\* The store under a running clock without sweeps

SleepOptions == [deleteOnExpire : BOOLEAN, checkPeriod : {0}]

SleepKeys == {Str("a"), Num(1)}
SleepValues == {Str("v")}
SleepTtls == {Undef, Num(1)}
SleepKeyArgs ==
  [isArray : {TRUE}, items : {<<Str("a")>>, <<Num(1)>>, <<Str("a"), Num(1)>>}]

InitSleep == \E o \in SleepOptions : Construct(o, {"get"}, {}, MaxReads)

NextSleep ==
  \/ \E key \in SleepKeys, value \in SleepValues, ttlArg \in SleepTtls :
       CallSet(key, value, ttlArg)
  \/ \E key \in SleepKeys : CallGet(key)
  \/ \E ks \in SleepKeyArgs : CallMget(ks)
  \/ \E key \in SleepKeys : CallTake(key)
  \/ \E key \in SleepKeys : CallHas(key)
  \/ \E key \in SleepKeys, ttlArg \in SleepTtls : CallTtl(key, ttlArg)
  \/ \E key \in SleepKeys : CallGetTtl(key)
  \/ \E ks \in SleepKeyArgs : CallDel(ks)
  \/ CallFlushAll(TRUE)
  \/ Tick

SpecSleep == InitSleep /\ [][NextSleep]_vars

-----------------------------------------------------------------------------
\* The store left to the sweeps: the clock advances and the host runs the callbacks

SweepOptions == [checkPeriod : {1}, deleteOnExpire : {TRUE}]

SweepKeys == {Str("a"), Num(1)}
SweepValues == {Str("v")}
\* the notifications of a sweep pass, for which the client registers listeners
SweepNames == {"del", "expired"}
\* where the clock of the model stops
Horizon == (2 + MaxTicks) * ttlMultiplicator

InitSweep == \E o \in SweepOptions : Construct(o, {"sweep"}, {"expired"}, MaxReads)

\* the client sets entries without a ttl at any time, and entries with a ttl of 1 s
\* while their expiry lies before the clock stops
NextSweep ==
  \/ \E name \in SweepNames, does \in Behaviours : On(name, does)
  \/ \E key \in SweepKeys, value \in SweepValues : CallSet(key, value, Undef)
  \/ \E key \in SweepKeys, value \in SweepValues :
       /\ now + ttlMultiplicator < Horizon
       /\ CallSet(key, value, Num(1))
  \/ \E key \in SweepKeys : CallGet(key)
  \/ TimerFire
  \/ Tick

\* a callback is due: TimerFire is enabled, as a pass removes the callback it runs
\* and the one it schedules is due later
TimerDue == \E j \in 1..Len(timers) : timers[j].due <= now

\* the clock keeps advancing and the host runs every callback that is due: weak
\* fairness of Tick and of TimerFire, the latter written out with TimerDue for
\* ENABLED <<TimerFire>>_vars
SpecSweep ==
  /\ InitSweep /\ [][NextSweep]_vars
  /\ WF_vars(Tick)
  /\ ([]<>~TimerDue) \/ ([]<><<TimerFire>>_vars)

-----------------------------------------------------------------------------
\* The sweep schedule under listeners that call back into the cache

TimerOptions == [checkPeriod : {1}, deleteOnExpire : BOOLEAN]
TimerKeys == {Str("a"), Str("b")}
TimerValues == {Str("v")}
TimerNames == {"expired", "del"}
\* what such a listener calls
Reentries == {"flushAll", "close"}

InitTimer == \E o \in TimerOptions : Construct(o, {"close", "sweep"}, {}, MaxReads)

NextTimer ==
  \/ \E name \in TimerNames, does \in Reentries : On(name, does)
  \/ \E key \in TimerKeys, value \in TimerValues :
       /\ now + ttlMultiplicator < Horizon
       /\ CallSet(key, value, Num(1))
  \/ \E key \in TimerKeys : CallGet(key)
  \/ \E key \in TimerKeys : CallDel([isArray |-> FALSE, items |-> <<key>>])
  \/ \E key \in TimerKeys : CallTtl(key, Num(1))
  \/ CallFlushAll(TRUE)
  \/ CallClose
  \/ TimerFire
  \/ Tick

SpecTimer == InitTimer /\ [][NextTimer]_vars

-----------------------------------------------------------------------------
\* The store with a capacity under a running clock

FullOptions == [maxKeys : {2}, checkPeriod : {1}]
FullKeys == {Str("a"), Str("b"), Str("c")}
FullValues == {Str("v")}
FullBatches == {<<[key |-> k, val |-> Str("v"), ttl |-> Undef]>> : k \in FullKeys}

InitFull == \E o \in FullOptions : Construct(o, {"flushStats"}, {}, MaxReads)

NextFull ==
  \/ \E key \in FullKeys, value \in FullValues : CallSet(key, value, Undef)
  \/ \E key \in FullKeys, value \in FullValues :
       /\ now + ttlMultiplicator < Horizon
       /\ CallSet(key, value, Num(1))
  \/ \E keyValueSet \in FullBatches : CallMset(keyValueSet)
  \/ \E key \in FullKeys, value \in FullValues : CallFetch(key, value, Undef)
  \/ \E key \in FullKeys : CallGet(key)
  \/ \E key \in FullKeys : CallDel([isArray |-> FALSE, items |-> <<key>>])
  \/ \E key \in FullKeys : CallTake(key)
  \/ \E key \in FullKeys : CallTtl(key, Num(1))
  \/ CallFlushStats
  \/ CallFlushAll(TRUE)
  \/ TimerFire
  \/ Tick

SpecFull == InitFull /\ [][NextFull]_vars

-----------------------------------------------------------------------------
\* The store addressed by numbers and by their string forms

KeyOptions == [checkPeriod : {0}]

\* the numbers 0 and 1, their string forms and the empty string
KeyKeys == {Num(0), Str("0"), Num(1), Str("1"), Str("")}
KeyValues == {Str("v")}
KeyTtls == {Num(0), Num(1)}

InitKeys == \E o \in KeyOptions : Construct(o, {"getTtl"}, {}, MaxReads)

NextKeys ==
  \/ \E key \in KeyKeys, value \in KeyValues, ttlArg \in KeyTtls :
       CallSet(key, value, ttlArg)
  \/ \E key \in KeyKeys : CallGet(key)
  \/ \E key \in KeyKeys : CallHas(key)
  \/ \E key \in KeyKeys : CallGetTtl(key)
  \/ \E key \in KeyKeys, ttlArg \in KeyTtls : CallTtl(key, ttlArg)
  \/ \E key \in KeyKeys : CallTake(key)
  \/ \E key \in KeyKeys : CallDel([isArray |-> FALSE, items |-> <<key>>])
  \/ Tick

SpecKeys == InitKeys /\ [][NextKeys]_vars

-----------------------------------------------------------------------------
\* The store filled through fetch

FetchOptions == [forceString : BOOLEAN, maxKeys : {-1, 1}, checkPeriod : {0}]

FetchKeys == {Str("a"), Num(1), Null}
ValidFetchKeys == {k \in FetchKeys : ~isInvalidKey(k)}
\* what fetch is given: a value, a function, undefined
FetchValues == {Str("w"), Fun(7), Undef}
FetchTtls == {Num(0), Num(1)}
\* the two ways of calling: fetch(key, value) and fetch(key, ttl, value)
FetchArgs ==
  {<<v, Undef>> : v \in FetchValues}
  \cup {<<t, v>> : t \in FetchTtls, v \in FetchValues \ {Undef}}

InitFetch == \E o \in FetchOptions : Construct(o, {"fetch"}, {}, MaxCount)

NextFetch ==
  \/ \E key \in FetchKeys, args \in FetchArgs : CallFetch(key, args[1], args[2])
  \/ \E key \in FetchKeys : CallDel([isArray |-> FALSE, items |-> <<key>>])

SpecFetch == InitFetch /\ [][NextFetch]_vars

-----------------------------------------------------------------------------
\* The copy operation on the graphs a client builds

CloneOptions == [checkPeriod : {0}]

\* the names of the properties and the kinds of the objects of the graphs
GraphProps == {"0", "1"}
GraphKinds == {"object", "buffer"}
\* the cut-offs: none, and 0 to MaxDepth
Depths == {Infinity} \cup 0..MaxDepth
\* the settings clone is called with: without the list of visited objects the
\* cut-off is finite, as the copy of a cyclic graph would not end
CloneSettings ==
  {s \in [circular : BOOLEAN, depth : Depths] : s.circular \/ s.depth # Infinity}

InitClone == \E o \in CloneOptions : Construct(o, {}, {}, MaxCount)

\* the settings the client calls it with: the default, and the deepest cut-off
\* with and without the list of visited objects
CalledSettings ==
  {s \in CloneSettings : s.depth = IF s.circular THEN Infinity ELSE MaxDepth}
    \cup {[circular |-> TRUE, depth |-> MaxDepth]}
\* the client copies the graph from the object it made first
Roots == {id \in held : \A j \in held : id <= j}

NextClone ==
  \/ \E kind \in GraphKinds : ClientCreate(kind)
  \/ \E id \in held, p \in GraphProps, target \in held : ClientAssign(id, p, Ref(target))
  \/ \E id \in Roots, s \in CalledSettings : CallClone(Ref(id), s.circular, s.depth)

SpecClone == InitClone /\ [][NextClone]_vars

-----------------------------------------------------------------------------
\* The copy with and without the list of visited objects

\* every way of calling clone
EndSettings == [circular : BOOLEAN, depth : Depths]

\* the ways the client calls it: without a cut-off, and with the deepest one
CalledEndSettings == {s \in EndSettings : s.depth \in {Infinity, MaxDepth}}

NextEnds ==
  \/ ClientCreate("object")
  \/ \E id \in held, p \in GraphProps, target \in held : ClientAssign(id, p, Ref(target))
  \/ \E id \in Roots, s \in CalledEndSettings : CallClone(Ref(id), s.circular, s.depth)

SpecEnds == InitClone /\ [][NextEnds]_vars

-----------------------------------------------------------------------------
\* The copy of a promise

\* what a promise is settled with: a string, an object the client holds; the
\* client copies a promise when it has let go of the copy it made before
Outcomes == {"fulfilled", "rejected"}
SettledWith == {Str("x")} \cup {Ref(id) : id \in {i \in held : heap[i].kind = "object"}}

NextDeferred ==
  \/ ClientCreate("object")
  \/ ClientDefer
  \/ \E id \in held, target \in held : ClientExtend(id, "0", Ref(target))
  \/ \E id \in held, outcome \in Outcomes, value \in SettledWith :
       ClientSettle(id, outcome, value)
  \/ ClientForget
  \/ \E id \in held : /\ heap[id].kind = "promise" /\ last.op # "clone"
                       /\ CallClone(Ref(id), TRUE, Infinity)
  \/ \E child \in DOMAIN heap : React(child)

\* a callback of then() whose promise has settled is waiting to be run
ReactionDue ==
  \E child \in DOMAIN heap :
    /\ heap[child].kind = "promise" /\ heap[child].reaction # NoReaction
    /\ heap[heap[child].reaction.source].state # "pending"

\* the host runs every callback of a settled promise: weak fairness of React,
\* which is enabled when a callback is due
SpecDeferred ==
  /\ InitClone /\ [][NextDeferred]_vars
  /\ (([]<>~ReactionDue) \/ ([]<><<\E child \in DOMAIN heap : React(child)>>_vars))

-----------------------------------------------------------------------------
\* The store of a client that has registered listeners

EventOptions == [forceString : BOOLEAN, checkPeriod : {0}]

EventNames == {"set", "del", "expired", "flush", "flush_stats"}
EventKeys == {Str("a"), Num(1)}
EventValues == {Num(7)}
\* no ttl, and a ttl below zero: the entry is past its expiry as soon as it is stored
EventTtls == {Undef, Num(-1)}
EventKeyArgs ==
  [isArray : {TRUE}, items : {<<Str("a"), Num(1)>>}]
  \cup [isArray : {FALSE}, items : {<<k>> : k \in EventKeys}]

InitEvents ==
  \E o \in EventOptions :
    Construct(o, {"del", "get"}, {}, ExpiryCount)

NextEvents ==
  \/ \E name \in EventNames, does \in Behaviours : On(name, does)
  \/ \E key \in EventKeys, value \in EventValues, ttlArg \in EventTtls :
       CallSet(key, value, ttlArg)
  \/ \E ks \in EventKeyArgs : CallDel(ks)
  \/ \E key \in EventKeys : CallGet(key)
  \/ CallFlushAll(TRUE)
  \/ CallFlushStats

SpecEvents == InitEvents /\ [][NextEvents]_vars

-----------------------------------------------------------------------------
\* The store of a client that listens to the removals of expired entries

LapseOptions == [useClones : BOOLEAN, checkPeriod : {0}]
LapseNames == {"del", "expired"}
LapseKeys == {Str("a"), Num(1)}
\* a number, nothing, and the objects the client holds
LapseValues == {Num(7), Undef} \cup {Ref(id) : id \in held}
\* no ttl, and a ttl below zero: the entry is past its expiry as soon as it is stored
LapseTtls == {Undef, Num(-1)}

InitLapse == \E o \in LapseOptions : Construct(o, {"has", "get"}, {}, MaxReads)

NextLapse ==
  \/ \E name \in LapseNames : On(name, "read")
  \/ ClientNewNested("x", Num(1))
  \/ \E key \in LapseKeys, value \in LapseValues, ttlArg \in LapseTtls :
       CallSet(key, value, ttlArg)
  \/ \E key \in LapseKeys : CallHas(key)
  \/ \E key \in LapseKeys : CallGet(key)

SpecLapse == InitLapse /\ [][NextLapse]_vars

-----------------------------------------------------------------------------
\* Round trip and value isolation

\* are a and b deep-equal in heap h
RECURSIVE DeepEq(_, _, _)
DeepEq(h, a, b) ==
  IF a.t = "ref" /\ b.t = "ref"
  THEN /\ h[a.n].kind = h[b.n].kind
       /\ DOMAIN h[a.n].props = DOMAIN h[b.n].props
       /\ \A p \in DOMAIN h[a.n].props : DeepEq(h, h[a.n].props[p], h[b.n].props[p])
  ELSE a = b

\* value v of heap h written out, the objects in the place of their references
RECURSIVE Snap(_, _)
Snap(h, v) ==
  IF v.t = "ref"
  THEN [kind |-> h[v.n].kind,
        props |-> [p \in DOMAIN h[v.n].props |-> Snap(h, h[v.n].props[p])]]
  ELSE [kind |-> "primitive", props |-> v]

\* the keys a further call is tried with
FurtherRefKeys == ValidRefKeys \cup {Num(1), Str("constructor")}

\* C1: for every valid key and every value v (objects, arrays, primitives, null and
\* undefined), after set(key, v) succeeds, get(key) returns a value deep-equal to v
RoundTrip ==
  \A key \in FurtherRefKeys, v \in AllValues :
    LET s == set(Cur, key, v, Undef)
        g == get(s.c, key)
    IN s.err = "" => g.err = "" /\ DeepEq(g.c.heap, g.ret, v)

\* C1 as amended: after set(key, v) succeeds, get(key) returns null when v is
\* undefined, the JSON text of v when forceString is set and v is not a string, and
\* otherwise a value deep-equal to v
RoundTripOfDefined ==
  \A key \in FurtherRefKeys, v \in AllValues :
    LET s == set(Cur, key, v, Undef)
        g == get(s.c, key)
    IN s.err = "" =>
         /\ g.err = ""
         /\ IF v = Undef THEN g.ret = Null
            ELSE IF options.forceString /\ TypeOf(v) # "string"
            THEN g.ret = JSONstringify(heap, v)
            ELSE DeepEq(g.c.heap, g.ret, v)

\* a get has just returned a copy of a stored array that holds an object
CopyRead ==
  /\ options.useClones /\ ~options.forceString
  /\ last.op = "get" /\ last.err = "" /\ last.ret.t = "ref"
  /\ Present(data, KeyToString(last.key))
  /\ last.ret # Entry(data, KeyToString(last.key)).v
  /\ heap[last.ret.n].kind = "array"
  /\ heap[last.ret.n].props["0"].t = "ref"
  /\ DeepEq(heap, last.ret, Entry(data, KeyToString(last.key)).v)

\* what get(key) returns after the client has assigned to property p of object id
GetAfterChange(key, id, p) ==
  LET g == get([Cur EXCEPT !.heap = [heap EXCEPT ![id] = PutProp(@, p, Changed)]], key)
  IN Snap(g.c.heap, g.ret)

\* no change the client can make to an object within its reach changes what get returns
IsolatedFromClient ==
  \A key \in ValidRefKeys, id \in Reach(heap, held) :
    \A p \in DOMAIN heap[id].props :
      GetAfterChange(key, id, p) = Snap(get(Cur, key).c.heap, get(Cur, key).ret)

\* get returns the very object that set was given
SameReference ==
  \A key \in ValidRefKeys, id \in held :
    LET s == set(Cur, key, Ref(id), Undef)
    IN s.err = "" => get(s.c, key).ret = Ref(id)

-----------------------------------------------------------------------------
\* Capacity

\* the keys a further set is tried with
FurtherKeys == ValidStoreKeys \cup {Str("b"), Num(2)}

\* C6: with maxKeys = N > 0, after N successful set calls of distinct new keys, a set
\* of any further new key fails with CacheFull and leaves the store, the stats and
\* the published notifications as they were
FullCacheRefusesNewKey ==
  (options.maxKeys > 0 /\ hist.fresh = options.maxKeys) =>
    \A key \in FurtherKeys, value \in StoreValues :
      ~Present(data, KeyToString(key)) =>
        LET r == set(Cur, key, value, Undef)
        IN r.err = "ECACHEFULL" /\ r.c.data = data /\ r.c.stats = stats /\ r.c.ev = <<>>

\* C7: with maxKeys = N > 0 and stats.keys = N, set(key, v) for a key that is stored
\* fails with CacheFull and changes nothing, that entry's value and expiry included
CapacityCheckPrecedesExistence ==
  (options.maxKeys > 0 /\ stats.keys = options.maxKeys) =>
    \A key \in ValidStoreKeys, value \in StoreValues, ttlArg \in {Undef, Num(0), Num(1)} :
      Present(data, KeyToString(key)) =>
        LET r == set(Cur, key, value, ttlArg)
        IN r.err = "ECACHEFULL" /\ r.c = Cur
           /\ Entry(r.c.data, KeyToString(key)) = Entry(data, KeyToString(key))

\* a set of a stored key has just been refused by a full cache
StoredKeyRefused ==
  /\ options.maxKeys > 0 /\ stats.keys = options.maxKeys
  /\ last.op = "set" /\ last.err = "ECACHEFULL"
  /\ Present(data, KeyToString(last.key))

-----------------------------------------------------------------------------
\* Deletion and the statistics

\* the key lists without an invalid key
ValidDelKeyArgs ==
  {ks \in DelKeyArgs : \A i \in 1..Len(ks.items) : ~isInvalidKey(ks.items[i])}

\* C9: del returns the number of listed keys that were in the store (a key listed
\* twice counts once) and skips the others without error, publishes one del
\* notification per removed key with the key and its value before the deletion;
\* afterwards has is false for every listed key and the unlisted entries are unchanged
DelRemovesListedKeys ==
  \A ks \in ValidDelKeyArgs :
    LET r == del(Cur, ks)
        listed == {KeyToString(ks.items[i]) : i \in 1..Len(ks.items)}
        removed == {k \in listed : Present(data, k)}
    IN /\ r.err = ""
       /\ r.ret = Num(Cardinality(removed))
       /\ Len(r.c.ev) = Cardinality(removed)
       /\ \A k \in removed :
            \E i \in 1..Len(r.c.ev) :
              /\ r.c.ev[i].name = "del"
              /\ KeyToString(r.c.ev[i].key) = k
              /\ r.c.ev[i].val = Entry(data, k).v
       /\ \A i \in 1..Len(ks.items) : has(r.c, ks.items[i]).ret = Bool(FALSE)
       /\ r.c.data = SelectSeq(data, LAMBDA e : e.k \notin listed)

-----------------------------------------------------------------------------
\* Expiry

\* the notifications named `name` among ev
Named(ev, name) == SelectSeq(ev, LAMBDA n : n.name = name)

\* the valid keys of the entry at position i of the store
KeysOf(i) == {key \in ValidExpiryKeys : KeyToString(key) = data[i].k}

\* C3: an entry written by set(key, v, 0) never expires: whatever the clock shows,
\* get keeps returning v, and get, mget, has, getTtl and sweep passes leave the entry
\* alone and publish no expired notification for key, until a write changes the entry
ZeroTtlNeverExpires ==
  /\ \A key \in ValidExpiryKeys, value \in ExpiryValues :
       LET r == set(Cur, key, value, Num(0))
       IN r.err = "" => Entry(r.c.data, KeyToString(key)).t = 0
  /\ \A i \in 1..Len(data) :
       data[i].t = 0 =>
         /\ Count(hist.expired, data[i].k) = 0
         /\ Present(checkData(Cur, TRUE).data, data[i].k)
         /\ Entry(checkData(Cur, TRUE).data, data[i].k) = data[i]
         /\ \A n \in 1..Len(checkData(Cur, TRUE).ev) :
              checkData(Cur, TRUE).ev[n].key # Str(data[i].k)
         /\ \A key \in KeysOf(i) :
              /\ get(Cur, key).ret = data[i].v
              /\ has(Cur, key).ret = Bool(TRUE)
              /\ getTtl(Cur, key).ret = Num(0)
              /\ mget(Cur, [isArray |-> TRUE, items |-> <<key>>]).map[data[i].k] = data[i].v
              /\ \A r \in {get(Cur, key), has(Cur, key), getTtl(Cur, key),
                           mget(Cur, [isArray |-> TRUE, items |-> <<key>>])} :
                   r.err = "" /\ r.c.data = data /\ r.c.ev = <<>>

\* with a default ttl of 1, two ticks after construction, a get has just returned the
\* value of an entry that does not expire
ZeroTtlEntryRead ==
  /\ options.stdTTL = 1 /\ now >= 4 * ttlMultiplicator
  /\ last.op = "get" /\ last.ret = Str("v") /\ last.ev = <<>>
  /\ Present(data, KeyToString(last.key))
  /\ Entry(data, KeyToString(last.key)).t = 0

\* C4: with deleteOnExpire true, an entry set with ttl t > 0 at clock T expires at
\* T + 1000*t; the first get after that returns undefined and counts a miss, the entry
\* is removed, and in the whole lifetime of the entry exactly one expired notification
\* is published, with the key and the value
ExpiredEntryIsRemovedOnce ==
  options.deleteOnExpire =>
    /\ \A key \in ValidExpiryKeys, value \in ExpiryValues :
         LET r == set(Cur, key, value, Num(1))
         IN r.err = "" => Entry(r.c.data, KeyToString(key)).t = now + 1000 * 1
    /\ \A k \in DOMAIN hist.expired : hist.expired[k] <= 1
    /\ \A i \in 1..Len(data) :
         /\ Count(hist.expired, data[i].k) = 0
         /\ Expired(data[i]) =>
              \A key \in KeysOf(i) :
                LET g == get(Cur, key)
                IN /\ g.err = "" /\ g.ret = Undef
                   /\ g.c.stats.misses = stats.misses + 1
                   /\ g.c.stats.hits = stats.hits
                   /\ ~Present(g.c.data, data[i].k)
                   /\ Named(g.c.ev, "expired") =
                        <<[name |-> "expired", key |-> Str(data[i].k), val |-> data[i].v]>>

\* a get has just found an entry expired, removed it and published the notification
ExpiredEntryRead ==
  /\ options.deleteOnExpire
  /\ last.op = "get" /\ last.ret = Undef /\ last.ev = <<"del", "expired">>
  /\ stats.misses = 1
  /\ ~Present(data, KeyToString(last.key))
  /\ Count(hist.expired, KeyToString(last.key)) = 1

\* C5: with deleteOnExpire false, an entry whose expiry has passed is absent for
\* every read path: get and take return undefined and count a miss, mget leaves it
\* out, has is false, ttl returns false, getTtl returns undefined, and the entry
\* stays in the store
ExpiredEntryIsHidden ==
  ~options.deleteOnExpire =>
    \A i \in 1..Len(data) :
      Expired(data[i]) =>
        \A key \in KeysOf(i) :
          /\ get(Cur, key).ret = Undef
          /\ get(Cur, key).c.stats.misses = stats.misses + 1
          /\ take(Cur, key).ret = Undef
          /\ mget(Cur, [isArray |-> TRUE, items |-> <<key>>]).map = EmptyMap
          /\ has(Cur, key).ret = Bool(FALSE)
          /\ ttl(Cur, key, Num(1)).ret = Bool(FALSE)
          /\ getTtl(Cur, key).ret = Undef
          /\ \A r \in {get(Cur, key), has(Cur, key), ttl(Cur, key, Num(1)),
                       getTtl(Cur, key)} : Present(r.c.data, data[i].k)

\* C8: a get with a valid key changes exactly one counter by one, hits when the key
\* is present and passes the expiry check and misses otherwise; since the last flush
\* hits + misses is the number of get calls plus the number of keys passed to mget,
\* take and a fetch hit counting as one get
GetCountsHitOrMiss ==
  /\ \A key \in ValidExpiryKeys :
       LET g == get(Cur, key)
           k == KeyToString(key)
       IN IF Present(data, k) /\ ~Expired(Entry(data, k))
          THEN g.c.stats = [stats EXCEPT !.hits = @ + 1]
          ELSE g.c.stats = [stats EXCEPT !.misses = @ + 1]
  /\ stats.hits + stats.misses = hist.asked

-----------------------------------------------------------------------------
\* The statistics against the store

\* the sum of the key lengths and of the size estimates of the entries of d
RECURSIVE SumKeyLength(_), SumValLength(_, _)
SumKeyLength(d) ==
  IF d = <<>> THEN 0 ELSE Len(Head(d).k) + SumKeyLength(Tail(d))
SumValLength(h, d) ==
  IF d = <<>> THEN 0 ELSE getValLength(h, Head(d).v) + SumValLength(h, Tail(d))

\* C11: after any sequence of calls, stats.keys is the number of entries in the
\* store, stats.ksize the sum of the lengths of their keys and stats.vsize the sum
\* of the size estimates of their values.
StatsMatchStore ==
  /\ stats.keys = Len(data)
  /\ stats.ksize = SumKeyLength(data)
  /\ stats.vsize = SumValLength(heap, data)

-----------------------------------------------------------------------------
\* Batches

\* an item with an invalid key or with a ttl that is there and is no number
BadItem(item) ==
  isInvalidKey(item.key) \/ (item.ttl # Undef /\ TypeOf(item.ttl) # "number")

\* an item the validation loop of mset refuses: a ttl that is falsy passes as omitted
RefusedItem(item) ==
  isInvalidKey(item.key) \/ (Truthy(item.ttl) /\ TypeOf(item.ttl) # "number")

\* the call changed nothing: same store, same statistics, no notification
Untouched(r) == r.c.data = data /\ r.c.stats = stats /\ r.c.heap = heap /\ r.c.ev = <<>>

\* C12: if any item of a batch has an invalid key or a ttl that is present but not
\* numeric, mset fails with InvalidKeyType or InvalidTtlType, no item of the batch is
\* written, the statistics are unchanged and no notification is published.
MsetAllOrNothing ==
  \A keyValueSet \in Batches :
    (\E i \in 1..Len(keyValueSet) : BadItem(keyValueSet[i]))
    => LET r == mset(Cur, keyValueSet)
       IN r.err \in {"EKEYTYPE", "ETTLTYPE"} /\ Untouched(r)

\* C12 as amended: if any item has an invalid key or a truthy ttl that is no number,
\* mset fails, with CacheFull when the capacity check refuses the batch and else with
\* InvalidTtlType or InvalidKeyType, and nothing is written: the store, the
\* statistics and the notifications are as before the call.
MsetValidatesBeforeWriting ==
  \A keyValueSet \in Batches :
    (\E i \in 1..Len(keyValueSet) : RefusedItem(keyValueSet[i]))
    => LET r == mset(Cur, keyValueSet)
       IN /\ Untouched(r)
          /\ IF isFull(Cur, Len(keyValueSet)) THEN r.err = "ECACHEFULL"
             ELSE r.err \in {"EKEYTYPE", "ETTLTYPE"}

\* a batch whose first item was valid has been refused for a later key, the store
\* holding other entries and not that first key
BatchRefusedAfterValidItem ==
  /\ last.op = "mset" /\ last.err = "EKEYTYPE"
  /\ ~isInvalidKey(last.key)
  /\ ~Present(data, KeyToString(last.key))
  /\ Len(data) > 0

-----------------------------------------------------------------------------
\* take

\* the names of the notifications in ev
Names(ev) == [i \in 1..Len(ev) |-> ev[i].name]

\* C13: take(key) returns what get(key) returns and counts one hit or one miss as
\* get does; when get found the key, the key is absent afterwards, the key and size
\* statistics are decremented once and one del notification is published; when
\* get did not find it, take leaves what get leaves and the store is unchanged.
TakeIsGetThenDel ==
  \A key \in ValidStoreKeys :
    LET t == take(Cur, key)
        g == get(Cur, key)
        keyStr == KeyToString(key)
    IN /\ t.ret = g.ret /\ t.err = g.err
       /\ t.c.stats.hits = g.c.stats.hits /\ t.c.stats.misses = g.c.stats.misses
       /\ g.c.stats.hits + g.c.stats.misses = stats.hits + stats.misses + 1
       /\ IF g.c.stats.hits = stats.hits + 1
          THEN /\ has(t.c, key).ret = Bool(FALSE)
               /\ ~Present(t.c.data, keyStr)
               /\ t.c.stats.keys = stats.keys - 1
               /\ t.c.stats.ksize = stats.ksize - Len(keyStr)
               /\ t.c.stats.vsize = stats.vsize - getValLength(heap, Entry(data, keyStr).v)
               /\ Names(t.c.ev) = Names(g.c.ev) \o <<"del">>
          ELSE t.c = g.c /\ t.c.data = data

-----------------------------------------------------------------------------
\* ttl and getTtl

\* the entry of key is stored and its expiry has not passed
PresentUnexpired(key) ==
  Present(data, KeyToString(key)) /\ ~Expired(Entry(data, KeyToString(key)))

\* the seconds ttl(key, ttlArg) is to apply: the default when none is passed
SecondsOf(ttlArg) == IF ttlArg = Undef THEN options.stdTTL ELSE ttlArg.n

\* C14: for a present, unexpired key, ttl(key, t) with t >= 0 or with t omitted
\* (the default TTL then being t) returns true, keeps the entry with the same
\* stored value, publishes nothing, leaves the statistics and rewrites the expiry
\* to now + 1000*t, or to never-expires when t = 0.
TtlRewritesExpiry ==
  \A key \in ValidExpiryKeys, ttlArg \in ExpiryTtls :
    PresentUnexpired(key)
    => LET r == ttl(Cur, key, ttlArg)
           keyStr == KeyToString(key)
       IN /\ r.ret = Bool(TRUE) /\ r.err = ""
          /\ Present(r.c.data, keyStr)
          /\ Entry(r.c.data, keyStr).v = Entry(data, keyStr).v
          /\ Entry(r.c.data, keyStr).t =
               IF SecondsOf(ttlArg) = 0 THEN 0
               ELSE now + SecondsOf(ttlArg) * ttlMultiplicator
          /\ r.c.ev = <<>>
          /\ r.c.stats = stats

\* a ttl below zero
Negative == Num(-1)

\* the entries of d that have not expired
LiveEntries(d) == {d[i] : i \in {j \in 1..Len(d) : ~Expired(d[j])}}

\* C15: ttl(key, t) with t < 0 on a present, unexpired key removes the key through
\* del (one del notification, statistics decremented) and returns true; ttl on a
\* key that is absent or expired returns false and changes no live entry.
TtlBelowZeroDeletes ==
  \A key \in ValidExpiryKeys :
    LET keyStr == KeyToString(key)
    IN IF PresentUnexpired(key)
       THEN LET r == ttl(Cur, key, Negative)
            IN /\ r.ret = Bool(TRUE) /\ r.err = ""
               /\ ~Present(r.c.data, keyStr)
               /\ Names(r.c.ev) = <<"del">>
               /\ r.c.stats.keys = stats.keys - 1
               /\ r.c.stats.ksize = stats.ksize - Len(keyStr)
               /\ r.c.stats.vsize = stats.vsize - getValLength(heap, Entry(data, keyStr).v)
       ELSE \A ttlArg \in ExpiryTtls \cup {Negative} :
              LET r == ttl(Cur, key, ttlArg)
              IN /\ r.ret = Bool(FALSE) /\ r.err = ""
                 /\ LiveEntries(r.c.data) = LiveEntries(data)

\* C16: getTtl(key), for every valid key, the number 0 and the empty string
\* included, returns the stored expiry timestamp when the key is present and
\* unexpired (0 when the entry never expires) and nothing when the key is not
\* stored or is expired.
GetTtlReturnsExpiry ==
  \A key \in KeyKeys :
    LET r == getTtl(Cur, key)
    IN /\ r.err = ""
       /\ r.ret = IF PresentUnexpired(key) THEN Num(Entry(data, KeyToString(key)).t)
                  ELSE Undef

-----------------------------------------------------------------------------
\* flushAll

\* the sweep callback that a call at this moment schedules
NewCallback == [startPeriod |-> TRUE, due |-> now + options.checkPeriod * 1000]

-----------------------------------------------------------------------------
\* Keys

\* a key that is neither a string nor a number
WrongKind(key) == TypeOf(key) \notin {"string", "number"}

\* keys of every kind: those the client passes, undefined and a boolean
AnyKeys == ExpiryKeys \cup {Undef, Bool(TRUE)}

\* the errors that the operations taking a key end with, called with this key
ErrorsWith(key) ==
  {get(Cur, key).err,
   set(Cur, key, Str("v"), Undef).err,
   del(Cur, [isArray |-> FALSE, items |-> <<key>>]).err,
   take(Cur, key).err,
   ttl(Cur, key, Undef).err,
   getTtl(Cur, key).err,
   has(Cur, key).err,
   mget(Cur, [isArray |-> TRUE, items |-> <<key>>]).err,
   mset(Cur, <<[key |-> key, val |-> Str("v"), ttl |-> Undef]>>).err}

\* C18: each operation that takes a key fails with InvalidKeyType exactly when the
\* key is neither a string nor an integral number.
KeyValidityIsUniform ==
  \A key \in AnyKeys :
    IF WrongKind(key) THEN ErrorsWith(key) = {"EKEYTYPE"}
    ELSE "EKEYTYPE" \notin ErrorsWith(key)

\* what a call leaves and returns, apart from the form of the key in notifications
Effect(r) == [ret |-> r.ret, err |-> r.err, data |-> r.c.data, stats |-> r.c.stats,
              ev |-> Names(r.c.ev)]

\* the numbers that are passed as keys
KeyNumbers == {k.n : k \in {x \in KeyKeys : x.t = "number"}}

\* do the operations act alike when called with the number n and with its string form
SameEntry(n) ==
  LET a == Num(n)
      b == Str(ToString(n))
  IN /\ Effect(get(Cur, a)) = Effect(get(Cur, b))
     /\ Effect(has(Cur, a)) = Effect(has(Cur, b))
     /\ Effect(getTtl(Cur, a)) = Effect(getTtl(Cur, b))
     /\ \A ttlArg \in KeyTtls : Effect(ttl(Cur, a, ttlArg)) = Effect(ttl(Cur, b, ttlArg))
     /\ Effect(take(Cur, a)) = Effect(take(Cur, b))
     /\ Effect(del(Cur, [isArray |-> FALSE, items |-> <<a>>]))
        = Effect(del(Cur, [isArray |-> FALSE, items |-> <<b>>]))
     /\ \A value \in KeyValues, ttlArg \in KeyTtls :
          Effect(set(Cur, a, value, ttlArg)) = Effect(set(Cur, b, value, ttlArg))

\* C19: a number key and its string form address one entry: get, has, getTtl, ttl,
\* take, del and set called with either act on that same entry, keys() lists it
\* once and stats.keys counts it once.
NumberAndStringAreOneKey ==
  /\ \A n \in KeyNumbers : SameEntry(n)
  /\ \A i, j \in 1..Len(data) : i # j => data[i].k # data[j].k
  /\ stats.keys = Len(data)

-----------------------------------------------------------------------------
\* fetch

\* the value and the ttl that a call fetch(key, args[1], args[2]) is given
GivenValue(args) == IF args[2] = Undef THEN args[1] ELSE args[2]
GivenTtl(args) == IF args[2] = Undef THEN Undef ELSE args[1]

\* with has(key) true, fetch ends as get(key) does, invokes nothing and leaves the store
FetchHit(key, args) ==
  LET f == fetch(Cur, key, args[1], args[2])
      g == get(Cur, key)
  IN f.calls = 0 /\ f.ret = g.ret /\ f.err = g.err /\ f.c = g.c /\ f.c.data = data

\* what get returns for a value that set has stored
ReadBack(value) ==
  IF options.forceString /\ TypeOf(value) # "string" THEN JSONstringify(heap, value)
  ELSE IF value = Undef THEN Null
  ELSE value

\* C20: when has(key) is true fetch returns get(key) and neither invokes the function
\* nor writes to the store; otherwise it evaluates the value, calling a function
\* once, stores it through set with the given ttl and returns it, and a get(key)
\* that follows at once returns that value.
FetchStoresAndReturns ==
  \A key \in ValidFetchKeys, args \in FetchArgs :
    IF has(Cur, key).ret = Bool(TRUE) THEN FetchHit(key, args)
    ELSE LET f == fetch(Cur, key, args[1], args[2])
             resultValue == Evaluate(GivenValue(args))
         IN /\ f.calls = Invocations(GivenValue(args))
            /\ f.err = "" /\ f.ret = resultValue
            /\ f.c = set(Cur, key, resultValue, GivenTtl(args)).c
            /\ get(f.c, key).ret = resultValue

\* C20 as amended: for a key that is a string or a number, when has(key) is true
\* fetch ends as get(key) does, invokes nothing and writes nothing; otherwise it
\* evaluates the value, calling a function once, and passes it to set with the given
\* ttl; when set fails fetch fails with the same error, and when set succeeds fetch
\* returns the value and a get(key) that follows at once returns what the store
\* gives back for it: null for undefined, the JSON text under forceString, else
\* the value.
FetchReadsOrWrites ==
  \A key \in ValidFetchKeys, args \in FetchArgs :
    IF has(Cur, key).ret = Bool(TRUE) THEN FetchHit(key, args)
    ELSE LET f == fetch(Cur, key, args[1], args[2])
             resultValue == Evaluate(GivenValue(args))
             st == set(Cur, key, resultValue, GivenTtl(args))
         IN /\ f.calls = Invocations(GivenValue(args))
            /\ f.c = st.c
            /\ f.err = st.err
            /\ st.err = "" => /\ f.ret = resultValue
                              /\ get(f.c, key).ret = ReadBack(resultValue)

\* fetch has evaluated a function for a key that was not there and has stored what
\* it returned
FetchedThroughFunction ==
  /\ last.op = "fetch" /\ last.err = "" /\ last.ev = <<"set">>
  /\ last.ret = Num(7)
  /\ Present(data, KeyToString(last.key))
  /\ get(Cur, last.key).ret = ReadBack(Num(7))

-----------------------------------------------------------------------------
\* The copy of a graph of objects

\* the graph the client holds, without what an earlier call left behind
Graph == Collect(heap, data, held, NoCall)

\* the property names that lead from a root to a value, up to the longest simple
\* path and one step more
Paths == UNION {[1..n -> GraphProps] : n \in 0..MaxNodes}
Missing == [t |-> "missing", n |-> 0, s |-> ""]
RECURSIVE Follow(_, _, _)
Follow(h, v, path) ==
  IF path = <<>> THEN v
  ELSE IF v.t = "ref" /\ Head(path) \in DOMAIN h[v.n].props
  THEN Follow(h, h[v.n].props[Head(path)], Tail(path))
  ELSE Missing

\* a plain object, array, map or set
Container(h, v) == v.t = "ref" /\ h[v.n].kind \in {"object", "array", "map", "set"}

\* the value b of heap g is at its place what the value a of heap h is at its own:
\* an object of the same kind with the same property names, or the same primitive
Corresponds(h, a, g, b) ==
  IF a.t = "ref"
  THEN /\ b.t = "ref"
       /\ g[b.n].kind = h[a.n].kind
       /\ DOMAIN g[b.n].props = DOMAIN h[a.n].props
  ELSE b = a

\* the graph under r.v in r.h is the graph under root in h, node for node
Isomorphic(h, root, r) ==
  /\ \A p \in Paths : Corresponds(h, Follow(h, root, p), r.h, Follow(r.h, r.v, p))
  /\ \A p, q \in Paths :
       Container(h, Follow(h, root, p)) /\ Container(h, Follow(h, root, q))
         => (Follow(h, root, p) = Follow(h, root, q)
               <=> Follow(r.h, r.v, p) = Follow(r.h, r.v, q))

\* no container under r.v is an object of the source heap h
Fresh(h, r) ==
  \A p \in Paths : Container(r.h, Follow(r.h, r.v, p)) => Follow(r.h, r.v, p).n \notin DOMAIN h

Distance(h, root, v) ==
  IF \E p \in Paths : Follow(h, root, p) = v
  THEN CHOOSE n \in 0..MaxNodes :
         /\ \E p \in Paths : Len(p) = n /\ Follow(h, root, p) = v
         /\ \A p \in Paths : Follow(h, root, p) = v => Len(p) >= n
  ELSE MaxNodes + 1

\* C22: with maxDepth = d, whether cycles are enabled or not, every container
\* reached along fewer than d properties from the root is a fresh copy, every
\* value whose distance from the root is exactly d is the original reference,
\* and d = 0 returns the source root unchanged.
DepthControl ==
  \A id \in held, circular \in BOOLEAN, d \in 0..MaxDepth :
    LET r == cloneWith(Graph, Ref(id), circular, d)
    IN /\ d = 0 => r.v = Ref(id) /\ r.h = Graph
       /\ \A p \in Paths :
            /\ Len(p) < d /\ Container(Graph, Follow(Graph, Ref(id), p))
                 => /\ Container(r.h, Follow(r.h, r.v, p))
                    /\ Follow(r.h, r.v, p).n \notin DOMAIN Graph
            /\ Len(p) = d /\ Follow(Graph, Ref(id), p) # Missing
                 /\ Distance(Graph, Ref(id), Follow(Graph, Ref(id), p)) = d
                 => Follow(r.h, r.v, p) = Follow(Graph, Ref(id), p)

\* C23: within one copy made with cycles enabled, whatever the maxDepth, two
\* paths that reach one and the same object of the source, a byte buffer
\* included, reach one and the same object of the result.
ReferenceIdentity ==
  \A id \in held, d \in Depths :
    LET r == cloneWith(Graph, Ref(id), TRUE, d)
    IN \A p, q \in Paths :
         /\ Follow(Graph, Ref(id), p).t = "ref"
         /\ Follow(Graph, Ref(id), p) = Follow(Graph, Ref(id), q)
         => Follow(r.h, r.v, p) = Follow(r.h, r.v, q)

-----------------------------------------------------------------------------
\* Notifications and listeners

\* the listeners registered for a name, in the order of their registration
ListenersOf(name) ==
  SelectSeq([i \in 1..Len(listeners) |-> i], LAMBDA i : listeners[i].name = name)

\* the calls of listeners that the notifications ev amount to, one notification
\* after the other
RECURSIVE Deliveries(_)
Deliveries(ev) ==
  IF ev = <<>> THEN <<>>
  ELSE [i \in 1..Len(ListenersOf(Head(ev).name)) |->
          [listener |-> ListenersOf(Head(ev).name)[i], name |-> Head(ev).name,
           key |-> Head(ev).key, val |-> Head(ev).val]]
       \o Deliveries(Tail(ev))

\* the calls of listeners a method has made, without what the listeners saw
Made(calls) ==
  [i \in 1..Len(calls) |->
     [listener |-> calls[i].listener, name |-> calls[i].name,
      key |-> calls[i].key, val |-> calls[i].val]]

\* every listener called saw the store and the stats of c
AllSaw(calls, c) ==
  \A i \in 1..Len(calls) : calls[i].keys = Keys(c.data) /\ calls[i].stats = c.stats

\* the keys of a list that are in the store, and the notifications their removal
\* publishes: the key as passed and the value as stored
Removable(items) == SelectSeq(items, LAMBDA k : Has(data, KeyToString(k)))
Removals(items) ==
  [i \in 1..Len(Removable(items)) |->
     [name |-> "del", key |-> Removable(items)[i],
      val |-> Entry(data, KeyToString(Removable(items)[i])).v]]

\* the cache without its listeners
Quiet == [Cur EXCEPT !.listeners = <<>>]

\* the cache after the first n of the keys that a del of items removes are removed
AfterRemoving(items, n) ==
  del(Quiet, [isArray |-> TRUE, items |-> SubSeq(Removable(items), 1, n)]).c

\* each listener called by a del of items saw the store and the stats as the
\* removal of its key and of the keys before it in the list had left them
SawRemovals(calls, items) ==
  \A i \in 1..Len(calls) :
    \E n \in 1..Len(Removable(items)) :
      /\ Removable(items)[n] = calls[i].key
      /\ calls[i].keys = Keys(AfterRemoving(items, n).data)
      /\ calls[i].stats = AfterRemoving(items, n).stats

\* what is published by a set, a flushAll and a flushStats that succeed, and to whom
SetPublishes(key, value, ttlArg) ==
  LET r == set(Cur, key, value, ttlArg)
  IN r.err = "" =>
       /\ r.c.ev = <<[name |-> "set", key |-> key, val |-> value]>>
       /\ Made(r.c.calls) = Deliveries(r.c.ev)
       /\ AllSaw(r.c.calls, r.c)
FlushPublishes ==
  LET r == flushAll(Cur, TRUE)
      q == flushStats(Cur)
  IN /\ r.err = "" =>
          /\ r.c.ev = <<[name |-> "flush", key |-> Undef, val |-> Undef]>>
          /\ Made(r.c.calls) = Deliveries(r.c.ev)
          /\ AllSaw(r.c.calls, r.c)
     /\ q.err = "" =>
          /\ q.c.ev = <<[name |-> "flush_stats", key |-> Undef, val |-> Undef]>>
          /\ Made(q.c.calls) = Deliveries(q.c.ev)
          /\ AllSaw(q.c.calls, q.c)

\* C24: every set that succeeds, every key removed by a del, every flushAll and
\* every flushStats publishes its notification within the call, to all the
\* listeners of that name in the order of their registration, with the payload
\* (key, value) as passed to set and (key as passed, value as stored) for del; and
\* every listener called, reading the cache, sees the store and the stats as they
\* are when the operation has ended.
NotificationAfterOperation ==
  /\ \A key \in EventKeys, value \in EventValues, ttlArg \in EventTtls :
       SetPublishes(key, value, ttlArg)
  /\ FlushPublishes
  /\ \A ks \in EventKeyArgs :
       LET r == del(Cur, ks)
       IN r.err = "" =>
            /\ r.c.ev = Removals(ks.items)
            /\ Made(r.c.calls) = Deliveries(r.c.ev)
            /\ AllSaw(r.c.calls, r.c)

\* C24 as amended: the same, except that a listener called for a key removed by a
\* del sees the store and the stats as the removal of that key has left them: the
\* keys before it in the list are removed, the keys after it are still there.
NotificationAfterChange ==
  /\ \A key \in EventKeys, value \in EventValues, ttlArg \in EventTtls :
       SetPublishes(key, value, ttlArg)
  /\ FlushPublishes
  /\ \A ks \in EventKeyArgs :
       LET r == del(Cur, ks)
       IN r.err = "" =>
            /\ r.c.ev = Removals(ks.items)
            /\ Made(r.c.calls) = Deliveries(r.c.ev)
            /\ SawRemovals(r.c.calls, ks.items)

\* a del has removed two keys with two listeners registered for del: both were
\* called for the first key and then both for the second, and at the calls for the
\* first key the second was still in the store
TwoRemovalsDelivered ==
  /\ last.op = "del" /\ last.err = "" /\ last.ev = <<"del", "del">>
  /\ Len(last.calls) = 4
  /\ [i \in 1..4 |-> last.calls[i].listener] = <<1, 2, 1, 2>>
  /\ last.calls[1].key = last.calls[2].key
  /\ last.calls[3].key # last.calls[1].key
  /\ KeyToString(last.calls[3].key) \in {last.calls[1].keys[j] : j \in 1..Len(last.calls[1].keys)}
  /\ last.calls[4].keys = <<>>
  /\ data = <<>>

\* is a listener that raises among the calls
Raising(calls) == \E i \in 1..Len(calls) : listeners[calls[i].listener].does = "raise"

\* the call r of a method ended in what a listener raised: the listeners were called
\* in their order up to the first that raises, nothing was published after the
\* notification it was called for, and the store and the stats are what that
\* listener saw
EndedAtListener(r) ==
  /\ r.c.calls # <<>>
  /\ Made(r.c.calls) = SubSeq(Deliveries(r.c.ev), 1, Len(r.c.calls))
  /\ listeners[r.c.calls[Len(r.c.calls)].listener].does = "raise"
  /\ ~Raising(SubSeq(r.c.calls, 1, Len(r.c.calls) - 1))
  /\ r.c.calls[Len(r.c.calls)].name = r.c.ev[Len(r.c.ev)].name
  /\ r.c.calls[Len(r.c.calls)].key = r.c.ev[Len(r.c.ev)].key
  /\ r.c.calls[Len(r.c.calls)].keys = Keys(r.c.data)
  /\ r.c.calls[Len(r.c.calls)].stats = r.c.stats

\* a listener that raises has the call r end in the failure, and only that has
Propagates(r) ==
  /\ r.err = "ListenerError" <=> Raising(Deliveries(r.c.ev))
  /\ r.err = "ListenerError" => EndedAtListener(r) /\ r.ret = Undef
  /\ r.err \in {"", "ListenerError"}

\* the cache c holds the store, the stats and the pending callbacks of the cache q
SameCache(c, q) ==
  c.data = q.data /\ c.stats = q.stats /\ c.timers = q.timers
  /\ c.checkTimeout = q.checkTimeout

\* C25: when a listener raises while a set, del, expired, flush or flush_stats
\* notification is delivered, the operation that published it ends in that failure,
\* the listeners registered after it are not called, and the changes to the store
\* and the stats made before the delivery stay: a set has stored its entry, a del
\* has removed the keys up to the one notified, an expiry check has removed the
\* entry, a flush has emptied the store and a flushStats has reset the counters.
ListenerFailurePropagates ==
  /\ \A key \in EventKeys, value \in EventValues, ttlArg \in EventTtls :
       /\ Propagates(set(Cur, key, value, ttlArg))
       /\ SameCache(set(Cur, key, value, ttlArg).c, set(Quiet, key, value, ttlArg).c)
  /\ \A ks \in EventKeyArgs :
       /\ Propagates(del(Cur, ks))
       /\ del(Cur, ks).err # "" =>
            \E n \in 1..Len(Removable(ks.items)) :
              SameCache(del(Cur, ks).c, AfterRemoving(ks.items, n))
  /\ \A key \in EventKeys :
       /\ Propagates(get(Cur, key))
       /\ get(Cur, key).err # "" =>
            /\ ~Has(get(Cur, key).c.data, KeyToString(key))
            /\ get(Cur, key).c.stats.keys = stats.keys - 1
            /\ get(Cur, key).c.stats.misses = stats.misses
  /\ Propagates(flushAll(Cur, TRUE))
  /\ SameCache(flushAll(Cur, TRUE).c, flushAll(Quiet, TRUE).c)
  /\ Propagates(flushStats(Cur))
  /\ SameCache(flushStats(Cur).c, flushStats(Quiet).c)

\* a get has found its key past its expiry and removed it; of two listeners
\* registered for expired the first raised, the second was not called, and the
\* get ended in the failure with the entry gone
ExpiredListenerRaised ==
  /\ last.op = "get" /\ last.err = "ListenerError"
  /\ last.ev = <<"del", "expired">>
  /\ listeners = <<[name |-> "expired", does |-> "raise"],
                   [name |-> "expired", does |-> "read"]>>
  /\ Len(last.calls) = 1 /\ last.calls[1].listener = 1
  /\ ~Has(data, KeyToString(last.key))
  /\ last.calls[1].keys = Keys(data)

-----------------------------------------------------------------------------
\* The instant of expiry

\* the read paths treat the key as absent
ReadAsAbsent(key) ==
  /\ get(Cur, key).ret = Undef
  /\ has(Cur, key).ret = Bool(FALSE)
  /\ getTtl(Cur, key).ret = Undef

\* the read paths give the entry of the key
ReadAsPresent(key) ==
  /\ get(Cur, key).ret = Entry(data, KeyToString(key)).v
  /\ has(Cur, key).ret = Bool(TRUE)
  /\ getTtl(Cur, key).ret = Num(Entry(data, KeyToString(key)).t)

\* the expiry check of each read path publishes expired for the key
ChecksPublishExpired(key) ==
  \A r \in {get(Cur, key), has(Cur, key), getTtl(Cur, key), ttl(Cur, key, Num(1)),
            take(Cur, key)} :
    \E i \in 1..Len(r.c.ev) : r.c.ev[i].name = "expired" /\ r.c.ev[i].key = Str(KeyToString(key))

\* none of them publishes it
ChecksPublishNothing(key) ==
  \A r \in {get(Cur, key), has(Cur, key), getTtl(Cur, key)} :
    \A i \in 1..Len(r.c.ev) : r.c.ev[i].name # "expired"

\* the keys the model reads by that are in the store: getTtl has the key 0 for
\* no key
StoredKeys == {k \in ValidExpiryKeys : Present(data, KeyToString(k)) /\ Truthy(k)}

\* C26: an entry with an expiry is expired from the instant on at which the clock
\* equals the expiry: the read paths treat an entry of the store as absent exactly
\* when 0 < expiresAt <= now.
ExpiredAtTheInstant ==
  \A key \in StoredKeys :
    ReadAsAbsent(key)
      <=> (0 < Entry(data, KeyToString(key)).t /\ Entry(data, KeyToString(key)).t <= now)

\* C26 as amended: the expiry check finds an entry expired exactly when its expiry
\* is not 0 and lies before the clock, expiresAt < now. At the instant at which the
\* clock equals the expiry, and before it, the read paths give the entry and
\* publish nothing; after it each check publishes expired and, when deleteOnExpire
\* is true, the read paths treat the entry as absent.
ExpiredAfterTheInstant ==
  \A key \in StoredKeys :
    IF Entry(data, KeyToString(key)).t # 0 /\ Entry(data, KeyToString(key)).t < now
    THEN /\ ChecksPublishExpired(key)
         /\ options.deleteOnExpire => ReadAsAbsent(key)
    ELSE ReadAsPresent(key) /\ ChecksPublishNothing(key)

\* a get has returned the value of an entry whose expiry the clock has just
\* reached, and the entry can still be read
ReadAtTheInstant ==
  /\ last.op = "get" /\ last.err = "" /\ last.ret = Str("v") /\ last.ev = <<>>
  /\ last.key \in StoredKeys
  /\ Entry(data, KeyToString(last.key)).t = now
  /\ ReadAsPresent(last.key)

-----------------------------------------------------------------------------
\* The capacity

\* C27: the capacity rule applies for every maxKeys >= 0, only a negative maxKeys
\* meaning no limit: a set, and an mset of at least one item, fails with CacheFull
\* when the store holds maxKeys keys or more, so that with maxKeys = 0 each of them
\* fails and the store stays empty.
CapacityFromZero ==
  /\ options.maxKeys >= 0 /\ stats.keys >= options.maxKeys =>
       /\ \A key \in CapacityKeys, value \in CapacityValues :
            set(Cur, key, value, Undef).err = "ECACHEFULL"
       /\ \A keyValueSet \in CapacityBatches \ {<<>>} :
            mset(Cur, keyValueSet).err = "ECACHEFULL"
  /\ options.maxKeys = 0 => data = <<>>

\* C28: for a batch of valid items mset succeeds, and stores every item, exactly
\* when the calls of set for the items one after the other would all succeed; a
\* batch of n new keys is accepted whenever keyCount + n <= maxKeys.
MsetAsSuccessiveSets ==
  \A keyValueSet \in CapacityBatches :
    /\ mset(Cur, keyValueSet).err = "" <=> msetLoop(Cur, keyValueSet).err = ""
    /\ mset(Cur, keyValueSet).err = "" =>
         mset(Cur, keyValueSet).c.data = msetLoop(Cur, keyValueSet).c.data
    /\ /\ options.maxKeys > 0
       /\ \A i \in 1..Len(keyValueSet) : ~Present(data, KeyToString(keyValueSet[i].key))
       /\ \A i, j \in 1..Len(keyValueSet) : keyValueSet[i].key = keyValueSet[j].key => i = j
       /\ stats.keys + Len(keyValueSet) <= options.maxKeys
       => mset(Cur, keyValueSet).err = ""

-----------------------------------------------------------------------------
\* Expiry without sweeps

\* the keys whose entries are in the store with their expiry passed
Overdue ==
  {k \in SleepKeys : /\ Present(data, KeyToString(k))
                     /\ Entry(data, KeyToString(k)).t # 0
                     /\ Entry(data, KeyToString(k)).t < now}

One(key) == [isArray |-> FALSE, items |-> <<key>>]

\* the calls that perform the expiry check on the key, and those that remove it
ChecksOf(key) ==
  {get(Cur, key), take(Cur, key), has(Cur, key), ttl(Cur, key, Num(1)), getTtl(Cur, key),
   [c |-> mget(Cur, [isArray |-> TRUE, items |-> <<key>>]).c, ret |-> Undef, err |-> ""]}
RemovalsOf(key) == {del(Cur, One(key)), flushAll(Cur, TRUE)}

\* the calls made with the key k2 that neither check nor remove another key
CallsWith(k2) ==
  ChecksOf(k2) \cup {del(Cur, One(k2))}
    \cup {set(Cur, k2, v, t) : v \in SleepValues, t \in SleepTtls}

-----------------------------------------------------------------------------
\* The sweeps

\* the sweep pass run by the pending callback j
Pass(j) ==
  checkData([Cur EXCEPT !.timers = RemoveAt(@, j), !.checkTimeout = HandleAfter(@, j)],
            timers[j].startPeriod)

\* a sweep pass checks every entry of the store: those past their expiry are
\* removed with an expired notification each, the others stay; and it schedules
\* the next pass one checkPeriod later
PassChecksAll ==
  \A j \in 1..Len(timers) :
    /\ \A i \in 1..Len(data) :
         IF data[i].t # 0 /\ data[i].t < now
         THEN /\ ~Present(Pass(j).data, data[i].k)
              /\ \E n \in 1..Len(Pass(j).ev) :
                   Pass(j).ev[n] = [name |-> "expired", key |-> Str(data[i].k),
                                    val |-> data[i].v]
         ELSE /\ Present(Pass(j).data, data[i].k)
              /\ Entry(Pass(j).data, data[i].k) = data[i]
    /\ Len(Pass(j).timers) = Len(timers)
    /\ Pass(j).timers[Len(timers)].due = now + options.checkPeriod * 1000
    /\ Pass(j).checkTimeout = Len(timers)

\* the entry of the key is in the store with an expiry
Expiring(ks) == Present(data, ks) /\ Entry(data, ks).t # 0
\* the key is out of the store and its expired notification has been published
SweptOut(ks) == ~Present(data, ks) /\ Count(hist.expired, ks) >= 1

\* the client has set the key again, without an expiry
SetForGood(ks) == Present(data, ks) /\ Entry(data, ks).t = 0

Raiser == \E i \in 1..Len(listeners) : listeners[i].does = "raise"

-----------------------------------------------------------------------------
\* The sweep schedule

\* the calls of the client that write, read or remove one key
KeyCalls ==
  UNION {{set(Cur, key, value, Num(1)) : value \in TimerValues}
           \cup {get(Cur, key), ttl(Cur, key, Num(1)),
                 del(Cur, [isArray |-> FALSE, items |-> <<key>>])} : key \in TimerKeys}

\* C31: close() cancels the pending sweep callback and changes nothing else: the
\* store, the stats and the notifications stay as they are, no callback is pending
\* after it, and none becomes pending by a set, get, del or ttl during which
\* flushAll is not called, so that no sweep pass runs until a flushAll schedules
\* one again.
CloseStopsSweeps ==
  /\ close(Cur).err = ""
  /\ close(Cur).c.data = data /\ close(Cur).c.stats = stats
  /\ close(Cur).c.ev = <<>> /\ close(Cur).c.calls = <<>>
  /\ close(Cur).c.timers = <<>>
  /\ timers = <<>> =>
       \A r \in KeyCalls :
         (\A i \in 1..Len(r.c.ev) : r.c.ev[i].name # "flush") => r.c.timers = <<>>
  /\ Len(flushAll(close(Cur).c, TRUE).c.timers) = 1

\* C40: at most one sweep callback is pending at any time, and the handle the
\* cache keeps is that callback, whatever the client, the timers and the listeners
\* that call back into the cache do; so close() cancels every pending sweep.
SingleSweepTimer ==
  /\ Len(timers) <= 1
  /\ timers # <<>> => checkTimeout = 1

-----------------------------------------------------------------------------
\* The expired notification of each check

\* the calls that perform one expiry check on the key
OneCheck(key) ==
  {get(Cur, key), take(Cur, key), has(Cur, key), getTtl(Cur, key)}
    \cup {ttl(Cur, key, t) : t \in ExpiryTtls}
    \cup {[c |-> mget(Cur, [isArray |-> TRUE, items |-> <<key>>]).c, ret |-> Undef,
           err |-> ""]}

\* the expired notification of an entry
ExpiredOf(e) == [name |-> "expired", key |-> Str(e.k), val |-> e.v]

\* the entries of the store past their expiry, as the store enumerates them
PastExpiry == SelectSeq(data, LAMBDA e : e.t # 0 /\ e.t < now)

-----------------------------------------------------------------------------
\* The capacity and the entries past their expiry

\* the keys that are not in the store
NewKeys == {key \in FullKeys : ~Present(data, KeyToString(key))}

\* what removes the entry e of the store: the check of a read, a del, a flushAll,
\* a sweep pass
RemovalsOfEntry(e) ==
  {get(Cur, Str(e.k)).c, del(Cur, [isArray |-> FALSE, items |-> <<Str(e.k)>>]).c,
   flushAll(Cur, TRUE).c}
    \cup {Pass(j) : j \in 1..Len(timers)}

\* C33: set performs no expiry check, and the entries past their expiry that are
\* still in the store count for maxKeys: when the store holds maxKeys of them, a
\* set of a new key fails with CacheFull and changes nothing, and it succeeds after
\* the check of a read, a sweep pass, a del or a flushAll has removed one of them.
OverdueEntriesCount ==
  (options.maxKeys > 0 /\ Len(PastExpiry) = options.maxKeys) =>
    \A key \in NewKeys, value \in FullValues :
      /\ set(Cur, key, value, Undef).err = "ECACHEFULL"
      /\ set(Cur, key, value, Undef).c.data = data
      /\ set(Cur, key, value, Undef).c.ev = <<>>
      /\ \A n \in 1..Len(PastExpiry) : \A c \in RemovalsOfEntry(PastExpiry[n]) :
           /\ ~Present(c.data, PastExpiry[n].k)
           /\ set(c, key, value, Undef).err = ""

\* C37: on a cache built with maxKeys = N > 0 the store never holds more than N
\* entries, whatever set, mset, fetch, del, take, ttl, sweep passes, flushStats and
\* flushAll are called.
CapacityInvariant ==
  options.maxKeys > 0 =>
    /\ Len(data) <= options.maxKeys
    /\ Len(keys(Cur)) <= options.maxKeys

-----------------------------------------------------------------------------
\* The end of a copy

\* the object lies on a cycle of the graph
OnCycle(h, id) == id \in Reach(h, RefsOfObj(h[id]) \cap DOMAIN h)
\* a cycle can be reached from the object
ReachesCycle(h, id) == \E n \in Reach(h, {id}) : OnCycle(h, n)

\* an object is being copied inside its own copy
Repeats(stack) == \E i, j \in 1..Len(stack) : i < j /\ stack[i] = stack[j]

-----------------------------------------------------------------------------
\* The copy of a promise

\* the promises the client holds
HeldPromises == {id \in held : heap[id].kind = "promise"}

\* the promises whose callback of then() is due
DueCopies ==
  {c \in DOMAIN heap : /\ heap[c].kind = "promise" /\ heap[c].reaction # NoReaction
                       /\ heap[heap[c].reaction.source].state # "pending"}

\* the client has the copy of a promise
HasPromiseCopy ==
  /\ last.op = "clone" /\ last.key.t = "ref" /\ heap[last.key.n].kind = "promise"
  /\ last.ret.t = "ref" /\ heap[last.ret.n].kind = "promise"

\* clone returns a new promise, pending, whatever the state of the source, and
\* leaves the source as it was
ReturnsPending ==
  \A id \in HeldPromises :
    LET r == cloneWith(Graph, Ref(id), TRUE, Infinity)
    IN /\ ~r.overflow
       /\ r.v.t = "ref" /\ r.v.n \notin DOMAIN Graph
       /\ r.h[r.v.n].kind = "promise" /\ r.h[r.v.n].state = "pending"
       /\ \A i \in DOMAIN Graph : r.h[i] = Graph[i]

\* the copy is pending while the source is, and is never settled otherwise than
\* the source
FollowsSource ==
  HasPromiseCopy =>
    /\ heap[last.ret.n].state \in {"pending", heap[last.key.n].state}
    /\ heap[last.ret.n].state # "pending" => heap[last.ret.n].reaction = NoReaction

\* the callback of then() settles the copy as the source is settled, with a copy of
\* the source's value in which a reference back to an object of the value is a
\* reference to the copy of that object
SettlesWithCopy ==
  \A c \in DueCopies :
    LET h2 == Settled(heap, c)
        src == heap[c].reaction.source
        r == [h |-> h2, v |-> h2[c].value]
    IN /\ h2[c].state = heap[src].state
       /\ Isomorphic(heap, heap[src].value, r)
       /\ \A p \in Paths : Container(h2, Follow(h2, r.v, p))
                              => Follow(h2, r.v, p).n \notin Reach(heap, held)
       /\ \A i \in Reach(heap, held) : h2[i] = heap[i]

\* the source has settled and the copy the client has is still pending
CopyBehind ==
  /\ HasPromiseCopy
  /\ heap[last.key.n].state # "pending" /\ heap[last.ret.n].state = "pending"

\* the client has let go of the copy, or the copy is settled as the source
CopyCaughtUp ==
  \/ ~HasPromiseCopy
  \/ heap[last.ret.n].state = heap[last.key.n].state

\* once the source has settled, the copy the client keeps is settled likewise
CopyCatchesUp == CopyBehind ~> CopyCaughtUp

\* C34: copying a promise returns at once a new promise; the copy is pending while
\* the source is pending and is fulfilled or rejected only as the source is; the
\* callback that settles it gives it a copy of the source's value or reason as
\* the source has it then, in which a reference of the value back to itself leads
\* to the copy.
PromiseCopyFollows == ReturnsPending /\ FollowsSource /\ SettlesWithCopy

\* the copy of a promise has been fulfilled with the copy of an object that refers
\* to itself
FulfilledWithCopiedCycle ==
  /\ HasPromiseCopy
  /\ heap[last.key.n].state = "fulfilled" /\ heap[last.ret.n].state = "fulfilled"
  /\ Container(heap, heap[last.key.n].value) /\ Container(heap, heap[last.ret.n].value)
  /\ heap[last.ret.n].value # heap[last.key.n].value
  /\ Follow(heap, heap[last.key.n].value, <<"0">>) = heap[last.key.n].value
  /\ Follow(heap, heap[last.ret.n].value, <<"0">>) = heap[last.ret.n].value


-----------------------------------------------------------------------------
\* The names a store object inherits

\* the key is one of the keys the store lists
Listed(c, key) == \E i \in 1..Len(keys(c)) : keys(c)[i] = KeyToString(key)

\* C35: a key that has no entry, never set or deleted, is absent whatever its name,
\* a name of Object.prototype such as 'constructor' included: has is false, get
\* returns nothing and counts a miss, and a set that succeeds counts one more key
\* and has the key listed by keys().
UnsetKeyIsAbsent ==
  \A key \in ValidStoreKeys :
    ~Present(data, KeyToString(key)) =>
      /\ has(Cur, key).ret = Bool(FALSE)
      /\ LET g == get(Cur, key)
         IN /\ g.ret = Undef
            /\ g.c.stats = [stats EXCEPT !.misses = @ + 1]
      /\ \A value \in StoreValues :
           LET r == set(Cur, key, value, Undef)
           IN r.err = "" => r.c.stats.keys = stats.keys + 1 /\ Listed(r.c, key)


-----------------------------------------------------------------------------
\* The calls that fail

\* the errors of the cache for an argument it refuses and for a full store
Refusals == {"EKEYTYPE", "EKEYSTYPE", "ETTLTYPE", "ECACHEFULL"}

\* C38: a call that fails with InvalidKeyType, KeysNotArray, InvalidTtlType or
\* CacheFull leaves the store, the statistics and the published notifications as
\* they were before the call, del and mget of a list with a valid key before an
\* invalid one included.
RefusedCallChangesNothing ==
  /\ \A ks \in DelKeyArgs :
       /\ del(Cur, ks).err \in Refusals => Untouched(del(Cur, ks))
       /\ mget(Cur, ks).err \in Refusals => Untouched(mget(Cur, ks))
  /\ \A key \in StoreKeys :
       /\ get(Cur, key).err \in Refusals => Untouched(get(Cur, key))
       /\ \A value \in StoreValues, ttlArg \in StoreTtls :
            set(Cur, key, value, ttlArg).err \in Refusals
              => Untouched(set(Cur, key, value, ttlArg))


-----------------------------------------------------------------------------
\* The notifications of a check that removes an entry

\* the keys of the entries past their expiry
Lapsed == {ks \in {data[i].k : i \in 1..Len(data)} : Expired(Entry(data, ks))}

\* b is a or, for an object, an object with the same content
SameValue(h, a, b) == Isomorphic(h, a, [h |-> h, v |-> b])

\* every listener called saw the store without the entry of ks and the stats
\* without its key, the length of its key and the size of its value
SawRemoved(calls, ks) ==
  \A i \in 1..Len(calls) :
    /\ \A j \in 1..Len(calls[i].keys) : calls[i].keys[j] # ks
    /\ calls[i].stats = [stats EXCEPT !.keys = @ - 1, !.ksize = @ - Len(ks),
                                      !.vsize = @ - getValLength(heap, Entry(data, ks).v)]

\* the check of the entry of ks publishes del and then expired for the key, calls
\* the listeners of each in that order, each seeing the entry removed, and counts
\* neither a hit nor a miss
RemovalPublished(r, ks) ==
  /\ ~r.c.thrown /\ ~r.result
  /\ ~Present(r.c.data, ks)
  /\ Len(r.c.ev) = 2
  /\ r.c.ev[1].name = "del" /\ r.c.ev[1].key = Str(ks)
  /\ r.c.ev[2].name = "expired" /\ r.c.ev[2].key = Str(ks)
  /\ Made(r.c.calls) = Deliveries(r.c.ev)
  /\ SawRemoved(r.c.calls, ks)
  /\ r.c.stats.hits = stats.hits /\ r.c.stats.misses = stats.misses

====
